---- MODULE Spec2Model ----
(***************************************************************************)
(* LocalRAG: the topic registry and vector-store lifecycle manager         *)
(* (TopicManager), its Folder Usage Tree, the progress/pause coordinator   *)
(* (ProgressTracker), the file-watch ingestion coordinator                 *)
(* (FileWatcherService) and the /search handler of the REST server.        *)
(*                                                                         *)
(* One module, several specifications over the same variables: each        *)
(* specification drives one component and leaves the others' variables     *)
(* unchanged.                                                              *)
(*                                                                         *)
(* Conventions.  A file path is the sequence of its segments ("/w/a.md"    *)
(* is <<"w", "a.md">>); only normalized absolute paths occur, on which     *)
(* path.normalize changes nothing.  An await is a scheduling point: the    *)
(* code up to the next await is one step.                                  *)
(***************************************************************************)
EXTENDS Integers, Sequences, FiniteSets, TLC

VARIABLES
    folderChunkStats,   \* TopicManager.folderChunkStats: topicId -> FolderChunkStats
    watchFoldersConfig, \* configuration: localrag.watchFolders (+ legacy watchFolder), in order
    topicsIndex,        \* TopicManager.topicsIndex.topics: topicId -> [name, documentCount]
    topicDocuments,     \* TopicManager.topicDocuments: topicId -> (documentId -> Document)
    vectorStoreCache,   \* TopicManager.vectorStoreCache: topicId -> handle
    storeMetadata,      \* on disk, vector-<id>-metadata.json: topicId -> embedding model
    currentModel,       \* EmbeddingService.getCurrentModel()
    availableModels,    \* EmbeddingService.listAvailableModels(): downloaded or local
    archive,            \* the .rag file last written by exportTopic
    nextTopicId,        \* generateTopicId: the next unused topic ID
    nextDocumentId,     \* generateDocumentId: the next unused document ID
    lastCall,           \* the last completed TopicManager call and its outcome
    searchRequests,     \* RestServer: the /search requests and where each one stands
    agentCache,         \* RestServer.agentCache: topicId -> agent
    instance,           \* TopicManager.instance: the singleton, or NoInstance
    initPromise,        \* TopicManager.initPromise: the promise of init(), or NoPromise
    isInitialized,      \* instance -> its isInitialized flag
    initExecutions,     \* promise of an init() call -> [instance, state]
    callers,            \* callers of getInstance / ensureInitialized and where they stand
    references,         \* the instances some caller got from getInstance
    pendingChanges,     \* FileWatcherService.pendingChanges, in insertion order
    updateTimer,        \* FileWatcherService.updateTimer: a timer handle, or NoTimer
    timers,             \* the armed debounce timers: handle -> delay left
    defaultTopicId,     \* FileWatcherService.defaultTopicId, or NoTopic
    watchers,           \* FileWatcherService.watchers is not empty
    seedTimers,         \* the armed timers of the deferred seed scan
    sinceLastEvent,     \* time since the last accepted event, up to the delay
    batch,              \* the seed scan or watcher batch in progress
    lastStep,           \* the last step of the watcher or the tracker
    isPaused,           \* ProgressTracker._isPaused
    pauseResolvers,     \* ProgressTracker.pauseResolvers: topicId -> waiters
    activeOperations,   \* ProgressTracker.activeOperations: topicId -> progress
    expiryTimers,       \* the armed timers that delete a completed progress record
    commonTopicsIndex,  \* TopicManager.commonTopicsIndex: null, or its topics
    commonTopicDocuments, \* TopicManager.commonTopicDocuments: topicId -> documents
    commonDatabasePath, \* TopicManager.commonDatabasePath, or NoPath
    storeCalls,         \* the getVectorStore calls in flight and where each stands
    deletions,          \* the topics with a deleteTopicVectorStore in flight
    reinitializing,     \* where reinitializeWithNewModel stands
    staleCached,        \* the topics whose cached handle predates an invalidation
    agentCacheCleanupCallback, \* TopicManager.agentCacheCleanupCallback
    staleAgents,        \* the topics whose cached agent predates an invalidation
    staleBuilds,        \* the requests building an agent on an invalidated store
    adding,             \* the addDocuments call followed from await to await
    topicManagerSet,    \* RestServer.topicManager is not null
    httpRequests,       \* the HTTP requests and where handleRequest stands
    responses,          \* what has been written to the response of each request
    waiters,            \* the callers of waitIfPaused and where each one stands
    runs,               \* the processQueuedChanges calls and where each one stands
    watchOnChangesConfig, \* configuration: localrag.watchOnChanges
    trackerCall,        \* the last call of pause, resume or togglePause and its events
    normalizeCall,      \* the last call of normalizeWatchFolders: arguments and result
    cleanupCalls,       \* the calls of the cleanup callback by the last reinitializeWithNewModel
    indexModelName,     \* TopicManager.topicsIndex.modelName, as saved
    statusResponse,     \* the body of the last response to GET /status
    defaultCalls,       \* the callers of ensureDefaultTopic and where each one stands
    storeChunks,        \* the LanceDB table of each topic: the chunks stored in it
    indexFile           \* the topic index file on disk

folderVars == <<folderChunkStats, watchFoldersConfig>>

managerVars ==
    <<topicsIndex, topicDocuments, vectorStoreCache, storeMetadata, currentModel,
      availableModels, archive, nextTopicId, nextDocumentId, lastCall>>

\* Everything the TopicManager operations leave alone.
searchVars == <<searchRequests, agentCache>>

watcherVars ==
    <<pendingChanges, updateTimer, timers, defaultTopicId, watchers, seedTimers,
      sinceLastEvent, batch, lastStep>>

trackerVars == <<isPaused, pauseResolvers, activeOperations, expiryTimers>>

singletonVars ==
    <<instance, initPromise, isInitialized, initExecutions, callers, references>>

commonVars == <<commonTopicsIndex, commonTopicDocuments, commonDatabasePath>>

handleVars == <<storeCalls, deletions, reinitializing, staleCached>>

agentVars == <<agentCacheCleanupCallback, staleAgents, staleBuilds>>

ingestVars == <<adding>>

restVars == <<topicManagerSet, httpRequests, responses>>

waitVars == <<waiters>>

overlapVars == <<runs>>

enableVars == <<watchOnChangesConfig>>

pauseVars == <<trackerCall>>

normalizeVars == <<normalizeCall>>

reinitVars == <<cleanupCalls, indexModelName>>

statusVars == <<statusResponse>>

defaultVars == <<defaultCalls>>

chunkVars == <<storeChunks>>

fileVars == <<indexFile>>

afterChunks == fileVars

afterDefault == <<chunkVars, afterChunks>>

afterStatus == <<defaultVars, afterDefault>>

afterReinit == <<statusVars, afterStatus>>

afterNormalize == <<reinitVars, afterReinit>>

afterPause == <<normalizeVars, afterNormalize>>

afterEnable == <<pauseVars, afterPause>>

afterOverlap == <<enableVars, afterEnable>>

afterWait == <<overlapVars, afterOverlap>>

afterRest == <<waitVars, afterWait>>

afterIngest == <<restVars, afterRest>>

afterAgents == <<ingestVars, afterIngest>>

afterHandles == <<agentVars, afterAgents>>

afterCommon == <<handleVars, afterHandles>>

\* The state that only the specifications further down drive.
laterVars == <<commonVars, afterCommon>>

\* Everything the singleton's operations leave alone, besides the above.
beyondSingleton == <<watcherVars, trackerVars, laterVars>>

\* Everything the /search handler leaves alone.
beyondSearch == <<singletonVars, beyondSingleton>>

beyondManager == <<searchVars, beyondSearch>>

vars == <<folderVars, managerVars, beyondManager>>

----------------------------------------------------------------------------
(* Bounds and input universes *)

MaxChunks == 2

ChunkCounts == 1..MaxChunks

\* The topics the Folder Usage Tree specification works on.
FolderTopics == {1}

\* File paths handed to the tree: a file, a path below that file's own path
\* (the name first held a folder, or holds one later), a file in a
\* sub-folder and a file outside every watch folder.
FilePaths ==
    { <<"w", "a.md">>,
      <<"w", "a.md", "b.md">>,
      <<"w", "d", "c.md">>,
      <<"x", "e.md">> }

\* Possible values of the watch-folder configuration.
WatchConfigs ==
    { <<>>,
      << <<"w">> >>,
      << <<"w">>, <<"w", "d">> >> }

\* Embedding models; NoModel stands for "no metadata file / no model recorded".
Models == {"m1", "m2"}
NoModel == "none"

MaxTopicIds == 3
MaxDocumentIds == 3
MaxBatch == 2
MaxStoreTopics == 2
MaxDocumentTopics == 2

NoTopic == 0
NoInstance == 0
NoPromise == 0

\* Topic names: a text and the number of " (imported)" suffixes after it.
TopicNames ==
    { [text |-> x, imported |-> 0] : x \in {"Docs", "docs"} }

\* Files handed to addDocuments.
DocPaths == { <<"w", "a.md">>, <<"w", "d", "c.md">> }

\* What documentPipeline.processDocument answers for one file: a failure
\* (success false, or an exception, caught the same way) or the number of
\* chunks it stored.
PipelineResults ==
    {[success |-> FALSE, chunksStored |-> 0]}
        \cup { [success |-> TRUE, chunksStored |-> n] : n \in ChunkCounts }

FileInputs == [filePath : DocPaths, pipelineResult : PipelineResults]

Batches(lo) == UNION { [1..n -> FileInputs] : n \in lo..MaxBatch }

\* What vectorStoreFactory.loadStore does when it is called.
LoadOutcomes == {"store", "null", "throws"}

----------------------------------------------------------------------------
(* Generic helpers *)

Extend(f, k, v) == [x \in (DOMAIN f) \cup {k} |-> IF x = k THEN v ELSE f[x]]

Remove(f, k) == [x \in (DOMAIN f) \ {k} |-> f[x]]

Min(S) == CHOOSE x \in S : \A y \in S : x <= y

RECURSIVE SumOver(_, _)
SumOver(S, f) ==
    IF S = {} THEN 0
    ELSE LET x == CHOOSE y \in S : TRUE
         IN  f[x] + SumOver(S \ {x}, f)

IsPrefix(p, q) ==
    /\ Len(p) <= Len(q)
    /\ SubSeq(q, 1, Len(p)) = p

\* path.dirname / path.basename on a segment sequence
Dirname(p) == SubSeq(p, 1, Len(p) - 1)
Basename(p) == p[Len(p)]

----------------------------------------------------------------------------
(* Folder Usage Tree (TopicManager.folderChunkStats)                       *)
(*                                                                         *)
(* A FolderChunkStats value is [nodes, totalChunks].  The nested maps      *)
(* roots: Map<rootKey, node> and node.children: Map<segment, node> are     *)
(* kept flat: nodes is a function on keys <<rootKey, relativeParts>>, the  *)
(* root node being <<rootKey, <<>> >>; a node's children are the keys one  *)
(* segment longer.  Each node is [isFile, chunkCount].                     *)

EmptyStats == [nodes |-> <<>>, totalChunks |-> 0]

NodeKey(root, rel) == <<root, rel>>

Roots(nodes) == { k \in DOMAIN nodes : k[2] = <<>> }

Children(nodes, key) ==
    { k \in DOMAIN nodes :
        /\ k[1] = key[1]
        /\ Len(k[2]) = Len(key[2]) + 1
        /\ IsPrefix(key[2], k[2]) }

\* The keys of the subtree below and including <<root, rel>>.
Subtree(nodes, root, rel) ==
    { k \in DOMAIN nodes : k[1] = root /\ IsPrefix(rel, k[2]) }

\* getWatchFolderForPath: the first configured folder, in configuration
\* order, that is the path or a prefix of it by whole segments.
GetWatchFolderForPath(cfg, filePath) ==
    LET matching == { i \in 1..Len(cfg) : IsPrefix(cfg[i], filePath) }
    IN  IF matching = {}
        THEN [found |-> FALSE, watchFolder |-> <<>>]
        ELSE LET first == CHOOSE i \in matching : \A j \in matching : i <= j
             IN  [found |-> TRUE, watchFolder |-> cfg[first]]

\* The root key and the relative parts update/remove compute for a file.
ResolveRoot(cfg, filePath) ==
    LET info == GetWatchFolderForPath(cfg, filePath)
    IN  IF info.found
        THEN [rootKey |-> info.watchFolder,
              relativeParts |->
                  SubSeq(filePath, Len(info.watchFolder) + 1, Len(filePath))]
        ELSE [rootKey |-> Dirname(filePath),
              relativeParts |-> <<Basename(filePath)>>]

RECURSIVE CalculateNodeTotal(_, _)
RECURSIVE SumNodeTotals(_, _)

\* calculateNodeTotal: a file node returns its own count and its children
\* are not visited; a folder returns the sum over its children.
CalculateNodeTotal(nodes, key) ==
    IF nodes[key].isFile
    THEN nodes[key].chunkCount
    ELSE SumNodeTotals(nodes, Children(nodes, key))

SumNodeTotals(nodes, S) ==
    IF S = {} THEN 0
    ELSE LET k == CHOOSE x \in S : TRUE
         IN  CalculateNodeTotal(nodes, k) + SumNodeTotals(nodes, S \ {k})

\* A node the recursion reaches: no node strictly above it is a file.
Visited(nodes, key) ==
    \A i \in 0..(Len(key[2]) - 1) :
        ~nodes[NodeKey(key[1], SubSeq(key[2], 1, i))].isFile

RecalculateFolderTotals(stats) ==
    LET nodes == stats.nodes
    IN  [nodes |->
            [k \in DOMAIN nodes |->
                IF ~nodes[k].isFile /\ Visited(nodes, k)
                THEN [nodes[k] EXCEPT !.chunkCount = CalculateNodeTotal(nodes, k)]
                ELSE nodes[k]],
         totalChunks |-> SumNodeTotals(nodes, Roots(nodes))]

\* updateFolderChunkStats on the stats of one topic (EmptyStats when the
\* topic had none).
UpdateFolderChunkStats(stats, cfg, filePath, chunkCount) ==
    LET r    == ResolveRoot(cfg, filePath)
        root == r.rootKey
        rel  == r.relativeParts
        walk == { NodeKey(root, SubSeq(rel, 1, i)) : i \in 0..Len(rel) }
        last == NodeKey(root, rel)
        built ==
            [k \in (DOMAIN stats.nodes) \cup walk |->
                IF k = last
                THEN [isFile |-> TRUE, chunkCount |-> chunkCount]
                ELSE IF k \in DOMAIN stats.nodes
                     THEN stats.nodes[k]
                     ELSE [isFile |-> FALSE, chunkCount |-> 0]]
    IN  IF rel = <<>>
        THEN stats
        ELSE RecalculateFolderTotals([stats EXCEPT !.nodes = built])

Without(nodes, D) == [k \in (DOMAIN nodes) \ D |-> nodes[k]]

\* A clean-up loop that deletes no ancestor.
KeepEmptyParents(nodes, root, rel, j) == nodes

\* The clean-up loop of removeFolderChunkStats: the ancestor of length j,
\* then the shorter ones, are deleted while they are folders without
\* children; the loop stops at the first one that is kept.
RECURSIVE PruneEmptyParents(_, _, _, _)
PruneEmptyParents(nodes, root, rel, j) ==
    IF j = 0 THEN nodes
    ELSE LET child == NodeKey(root, SubSeq(rel, 1, j))
         IN  IF /\ child \in DOMAIN nodes
                /\ Children(nodes, child) = {}
                /\ ~nodes[child].isFile
             THEN PruneEmptyParents(Without(nodes, {child}), root, rel, j - 1)
             ELSE nodes

\* A removal that keeps a root left without children.
RemoveKeepingRoot(stats, cfg, filePath) ==
    LET r       == ResolveRoot(cfg, filePath)
        root    == r.rootKey
        rel     == r.relativeParts
        found   == \A i \in 0..Len(rel) :
                       NodeKey(root, SubSeq(rel, 1, i)) \in DOMAIN stats.nodes
        removed == Without(stats.nodes, Subtree(stats.nodes, root, rel))
        pruned  == PruneEmptyParents(removed, root, rel, Len(rel) - 1)
    IN  IF rel = <<>> \/ ~found
        THEN stats
        ELSE RecalculateFolderTotals([stats EXCEPT !.nodes = pruned])

RemoveFolderChunkStats(stats, cfg, filePath) ==
    LET r       == ResolveRoot(cfg, filePath)
        root    == r.rootKey
        rel     == r.relativeParts
        rootKey == NodeKey(root, <<>>)
        found   == \A i \in 0..Len(rel) :
                       NodeKey(root, SubSeq(rel, 1, i)) \in DOMAIN stats.nodes
        removed == Without(stats.nodes, Subtree(stats.nodes, root, rel))
        pruned  == PruneEmptyParents(removed, root, rel, Len(rel) - 1)
        final   == IF Children(pruned, rootKey) = {} /\ ~pruned[rootKey].isFile
                   THEN Without(pruned, {rootKey})
                   ELSE pruned
    IN  IF rel = <<>> \/ ~found
        THEN stats
        ELSE RecalculateFolderTotals([stats EXCEPT !.nodes = final])

StatsOf(t) ==
    IF t \in DOMAIN folderChunkStats THEN folderChunkStats[t] ELSE EmptyStats

----------------------------------------------------------------------------
(* Folder Usage Tree: operations *)

FolderVarsInit ==
    /\ folderChunkStats = <<>>
    /\ watchFoldersConfig = << <<"w">> >>

updateFolderChunkStats(t, filePath, chunkCount) ==
    /\ folderChunkStats' =
           [x \in (DOMAIN folderChunkStats) \cup {t} |->
               IF x = t
               THEN UpdateFolderChunkStats(StatsOf(t), watchFoldersConfig,
                                           filePath, chunkCount)
               ELSE folderChunkStats[x]]
    /\ UNCHANGED <<watchFoldersConfig, managerVars, beyondManager>>

removeFolderChunkStats(t, filePath) ==
    /\ folderChunkStats' =
           IF t \in DOMAIN folderChunkStats
           THEN [folderChunkStats EXCEPT ![t] =
                    RemoveFolderChunkStats(@, watchFoldersConfig, filePath)]
           ELSE folderChunkStats
    /\ UNCHANGED <<watchFoldersConfig, managerVars, beyondManager>>

\* The user edits localrag.watchFolders.
SetWatchFolders(cfg) ==
    /\ cfg # watchFoldersConfig
    /\ watchFoldersConfig' = cfg
    /\ UNCHANGED <<folderChunkStats, managerVars, beyondManager>>

FolderUpdate ==
    \E t \in FolderTopics, p \in FilePaths, n \in ChunkCounts :
        updateFolderChunkStats(t, p, n)

FolderRemove ==
    \E t \in FolderTopics, p \in FilePaths : removeFolderChunkStats(t, p)

FolderConfigure == \E cfg \in WatchConfigs : SetWatchFolders(cfg)

FolderNext == FolderUpdate \/ FolderRemove \/ FolderConfigure

----------------------------------------------------------------------------
(* Claims: Folder Usage Tree *)

StatsConsistent(stats) ==
    /\ \A k \in DOMAIN stats.nodes :
           Children(stats.nodes, k) # {} =>
               stats.nodes[k].chunkCount =
                   SumOver(Children(stats.nodes, k),
                           [c \in Children(stats.nodes, k) |->
                               stats.nodes[c].chunkCount])
    /\ stats.totalChunks =
           SumOver(Roots(stats.nodes),
                   [c \in Roots(stats.nodes) |-> stats.nodes[c].chunkCount])

\* C2: after every updateFolderChunkStats and removeFolderChunkStats call, in
\* every topic's tree every node that has children has chunkCount equal to
\* the sum of its children's chunkCount, and totalChunks equals the sum of
\* the roots' chunkCount.
C2_FolderTotalsConsistent ==
    \A t \in DOMAIN folderChunkStats : StatsConsistent(folderChunkStats[t])

----------------------------------------------------------------------------
(* TopicManager: registry, documents and vector-store handles              *)
(*                                                                         *)
(* A topic is [name, documentCount]; a document is                         *)
(* [id, topicId, filePath, chunkCount].  IDs are issued from counters: the *)
(* generators never repeat an ID.  The calls below run to completion, one  *)
(* at a time.                                                              *)

Call(op, topicId, outcome, value) ==
    [op |-> op, topicId |-> topicId, outcome |-> outcome, value |-> value]

Lower(text) ==
    IF text = "Docs" THEN "docs"
    ELSE IF text \in {"Notes", "NOTES"} THEN "notes"
    ELSE IF text = "Default" THEN "default"
    ELSE text

\* String.prototype.toLowerCase on a name; " (imported)" is lower case already.
ToLowerCase(name) == [name EXCEPT !.text = Lower(@)]

\* `${name} (imported)`
WithImportedSuffix(name) == [name EXCEPT !.imported = @ + 1]

\* The duplicate-name test of createTopic (except = NoTopic), updateTopic
\* (except = the topic renamed) and importTopic (except = NoTopic).
FindByName(index, name, except) ==
    { t \in DOMAIN index :
        t # except /\ ToLowerCase(index[t].name) = ToLowerCase(name) }

\* getTopicDocuments: the documents of a topic as an array, in insertion
\* order, which is the order of their IDs; [] for a topic without a map.
RECURSIVE ValuesInOrder(_)
ValuesInOrder(documents) ==
    IF DOMAIN documents = {} THEN <<>>
    ELSE LET first == Min(DOMAIN documents)
         IN  <<documents[first]>> \o ValuesInOrder(Remove(documents, first))

GetTopicDocuments(t) ==
    IF t \in DOMAIN topicDocuments THEN ValuesInOrder(topicDocuments[t]) ELSE <<>>

StoredModel(t) == IF t \in DOMAIN storeMetadata THEN storeMetadata[t] ELSE NoModel

NoError == [kind |-> "none", storedModel |-> NoModel, currentModel |-> NoModel]

LoadError == [kind |-> "LoadFailed", storedModel |-> NoModel, currentModel |-> NoModel]

\* The message of the mismatch error names the stored and the current model.
MismatchError(stored, current) ==
    [kind |-> "ModelMismatch", storedModel |-> stored, currentModel |-> current]

\* ensureEmbeddingModelCompatibility: NoError when it returns, the error it
\* throws otherwise.
EnsureEmbeddingModelCompatibility(t) ==
    IF StoredModel(t) = NoModel THEN NoError
    ELSE IF StoredModel(t) = currentModel THEN NoError
    ELSE IF StoredModel(t) \in availableModels THEN NoError
    ELSE MismatchError(StoredModel(t), currentModel)

StoreHandle(t) == [topicId |-> t]

NoStore == [topicId |-> NoTopic]

\* A getVectorStore that looks in the cache before it compares the models.
GetVectorStoreCacheFirst(t, load) ==
    LET err == EnsureEmbeddingModelCompatibility(t)
    IN  IF t \in DOMAIN vectorStoreCache
        THEN [outcome |-> "handle", store |-> vectorStoreCache[t], error |-> NoError,
              opened |-> FALSE, cache |-> vectorStoreCache]
        ELSE IF err # NoError
        THEN [outcome |-> "error", store |-> NoStore, error |-> err,
              opened |-> FALSE, cache |-> vectorStoreCache]
        ELSE IF load = "throws"
        THEN [outcome |-> "error", store |-> NoStore, error |-> LoadError,
              opened |-> TRUE, cache |-> vectorStoreCache]
        ELSE IF load = "null"
        THEN [outcome |-> "null", store |-> NoStore, error |-> NoError,
              opened |-> TRUE, cache |-> vectorStoreCache]
        ELSE [outcome |-> "handle", store |-> StoreHandle(t), error |-> NoError,
              opened |-> TRUE, cache |-> Extend(vectorStoreCache, t, StoreHandle(t))]

\* getVectorStore(t) when loadStore, if it is called, does `load`: the
\* outcome, the handle returned, the error thrown, whether loadStore was
\* called, and the cache afterwards.
GetVectorStore(t, load) ==
    LET err == EnsureEmbeddingModelCompatibility(t)
    IN  IF err # NoError
        THEN [outcome |-> "error", store |-> NoStore, error |-> err,
              opened |-> FALSE, cache |-> vectorStoreCache]
        ELSE IF t \in DOMAIN vectorStoreCache
        THEN [outcome |-> "handle", store |-> vectorStoreCache[t], error |-> NoError,
              opened |-> FALSE, cache |-> vectorStoreCache]
        ELSE IF load = "throws"
        THEN [outcome |-> "error", store |-> NoStore, error |-> LoadError,
              opened |-> TRUE, cache |-> vectorStoreCache]
        ELSE IF load = "null"
        THEN [outcome |-> "null", store |-> NoStore, error |-> NoError,
              opened |-> TRUE, cache |-> vectorStoreCache]
        ELSE [outcome |-> "handle", store |-> StoreHandle(t), error |-> NoError,
              opened |-> TRUE, cache |-> Extend(vectorStoreCache, t, StoreHandle(t))]

\* The loop of addDocuments over files i..Len(files), from the documents of
\* the topic, its folder statistics and the next document ID: a file whose
\* pipeline run failed is skipped, every other file gets a new document and
\* its chunk count enters the folder tree.
RECURSIVE AddLoop(_, _, _, _, _, _, _)
AddLoop(t, files, i, documents, stats, nextId, cfg) ==
    IF i > Len(files)
    THEN [documents |-> documents, stats |-> stats, nextId |-> nextId]
    ELSE IF ~files[i].pipelineResult.success
    THEN AddLoop(t, files, i + 1, documents, stats, nextId, cfg)
    ELSE LET document == [id |-> nextId, topicId |-> t,
                          filePath |-> files[i].filePath,
                          chunkCount |-> files[i].pipelineResult.chunksStored]
         IN  AddLoop(t, files, i + 1,
                     Extend(documents, nextId, document),
                     UpdateFolderChunkStats(stats, cfg, document.filePath,
                                            document.chunkCount),
                     nextId + 1, cfg)

Successes(files) == { i \in 1..Len(files) : files[i].pipelineResult.success }

\* The common index: null, or the topics of the common topics.json.
NullIndex == [null |-> TRUE, topics |-> <<>>]

IndexOf(topics) == [null |-> FALSE, topics |-> topics]

NoPath == ""

isCommonTopic(t) ==
    ~commonTopicsIndex.null /\ t \in DOMAIN commonTopicsIndex.topics

\* Object.values(index.topics) under a source tag, in insertion order,
\* which is the order of the IDs.
RECURSIVE TopicsInOrder(_, _)
TopicsInOrder(topics, source) ==
    IF DOMAIN topics = {} THEN <<>>
    ELSE LET first == Min(DOMAIN topics)
         IN  << [id |-> first, name |-> topics[first].name, source |-> source] >>
                 \o TopicsInOrder(Remove(topics, first), source)

\* getAllTopics: the local topics, then the common ones.
getAllTopics ==
    TopicsInOrder(topicsIndex, "local")
        \o (IF commonTopicsIndex.null THEN <<>>
            ELSE TopicsInOrder(commonTopicsIndex.topics, "common"))

\* getTopic: the local topic of that ID first, then the common one.
getTopic(t) ==
    IF t \in DOMAIN topicsIndex
    THEN {[id |-> t, name |-> topicsIndex[t].name, source |-> "local"]}
    ELSE IF isCommonTopic(t)
    THEN {[id |-> t, name |-> commonTopicsIndex.topics[t].name,
           source |-> "common"]}
    ELSE {}

ConflictsCaseSensitive(common, local) ==
    { c \in DOMAIN common : \E l \in DOMAIN local : local[l].name = common[c].name }

\* The common topics whose name a local topic bears, ignoring case.
Conflicts(common, local) ==
    { c \in DOMAIN common :
        ToLowerCase(common[c].name)
            \in { ToLowerCase(local[l].name) : l \in DOMAIN local } }

----------------------------------------------------------------------------
(* TopicManager: operations *)

ManagerVarsInit ==
    /\ topicsIndex = <<>>
    /\ topicDocuments = <<>>
    /\ vectorStoreCache = <<>>
    /\ storeMetadata = <<>>
    /\ currentModel = "m1"
    /\ availableModels = {"m1"}
    /\ archive = <<>>
    /\ nextTopicId = 1
    /\ nextDocumentId = 1
    /\ lastCall = Call("init", NoTopic, "ok", <<>>)

\* No common database path is configured when the manager starts.
CommonVarsInit ==
    /\ commonTopicsIndex = NullIndex
    /\ commonTopicDocuments = <<>>
    /\ commonDatabasePath = NoPath

\* The pipeline writes the store of the topic; a store written for the
\* first time records the model that embedded it.
StoreWritten(t, written) ==
    IF written /\ StoredModel(t) = NoModel
    THEN Extend(storeMetadata, t, currentModel)
    ELSE storeMetadata

createTopic(name, files) ==
    /\ nextTopicId <= MaxTopicIds
    /\ nextDocumentId + Cardinality(Successes(files)) - 1 <= MaxDocumentIds
    /\ IF FindByName(topicsIndex, name, NoTopic) # {}
       THEN /\ lastCall' = Call("createTopic", NoTopic, "error", name)
            /\ UNCHANGED <<topicsIndex, topicDocuments, storeMetadata,
                           nextTopicId, nextDocumentId, folderChunkStats>>
       ELSE LET t == nextTopicId
                added == AddLoop(t, files, 1, <<>>, StatsOf(t), nextDocumentId,
                                 watchFoldersConfig)
            IN  /\ topicsIndex' =
                       Extend(topicsIndex, t,
                              [name |-> name,
                               documentCount |-> Cardinality(DOMAIN added.documents)])
                /\ topicDocuments' = Extend(topicDocuments, t, added.documents)
                /\ folderChunkStats' =
                       IF Successes(files) # {}
                       THEN Extend(folderChunkStats, t, added.stats)
                       ELSE folderChunkStats
                /\ storeMetadata' = StoreWritten(t, Successes(files) # {})
                /\ nextTopicId' = nextTopicId + 1
                /\ nextDocumentId' = added.nextId
                /\ lastCall' = Call("createTopic", t, "ok", name)
    /\ UNCHANGED <<vectorStoreCache, currentModel, availableModels, archive,
                   watchFoldersConfig>>

addDocuments(t, files) ==
    /\ nextDocumentId + Cardinality(Successes(files)) - 1 <= MaxDocumentIds
    /\ IF t \notin DOMAIN topicsIndex
       THEN /\ lastCall' = Call("addDocuments", t, "error", "Topic not found")
            /\ UNCHANGED <<topicsIndex, topicDocuments, storeMetadata,
                           nextDocumentId, folderChunkStats>>
       ELSE LET before == IF t \in DOMAIN topicDocuments
                          THEN topicDocuments[t] ELSE <<>>
                added == AddLoop(t, files, 1, before, StatsOf(t), nextDocumentId,
                                 watchFoldersConfig)
                after == IF t \in DOMAIN topicDocuments \/ Successes(files) # {}
                         THEN Extend(topicDocuments, t, added.documents)
                         ELSE topicDocuments
            IN  /\ topicDocuments' = after
                /\ topicsIndex' =
                       [topicsIndex EXCEPT ![t].documentCount =
                           IF t \in DOMAIN after
                           THEN Cardinality(DOMAIN after[t]) ELSE 0]
                /\ folderChunkStats' =
                       IF Successes(files) # {}
                       THEN Extend(folderChunkStats, t, added.stats)
                       ELSE folderChunkStats
                /\ storeMetadata' = StoreWritten(t, Successes(files) # {})
                /\ nextDocumentId' = added.nextId
                /\ lastCall' = Call("addDocuments", t, "ok",
                                    Cardinality(Successes(files)))
    /\ UNCHANGED <<vectorStoreCache, currentModel, availableModels, archive,
                   nextTopicId, watchFoldersConfig>>

\* removeDocumentByFilePath(t, filePath) when loadStore, if it is called,
\* does `load`.  The document leaves the map before the store is asked for;
\* a failure to get the store ends the call there.  A failure of the
\* table's delete is caught and changes nothing recorded here.
removeDocumentByFilePath(t, filePath, load) ==
    LET matching == IF t \in DOMAIN topicDocuments
                    THEN { d \in DOMAIN topicDocuments[t] :
                             topicDocuments[t][d].filePath = filePath }
                    ELSE {}
    IN
    /\ IF t \notin DOMAIN topicsIndex
       THEN /\ lastCall' = Call("removeDocumentByFilePath", t, "error",
                                "Topic not found")
            /\ UNCHANGED <<topicsIndex, topicDocuments, vectorStoreCache,
                           folderChunkStats>>
       ELSE IF matching = {}
       THEN /\ lastCall' = Call("removeDocumentByFilePath", t, "ok", FALSE)
            /\ UNCHANGED <<topicsIndex, topicDocuments, vectorStoreCache,
                           folderChunkStats>>
       ELSE LET documents == Remove(topicDocuments[t], Min(matching))
                got == GetVectorStore(t, load)
            IN  /\ topicDocuments' = [topicDocuments EXCEPT ![t] = documents]
                /\ vectorStoreCache' = got.cache
                /\ IF got.outcome = "error"
                   THEN /\ lastCall' = Call("removeDocumentByFilePath", t,
                                            "error", got.error.kind)
                        /\ UNCHANGED <<topicsIndex, folderChunkStats>>
                   ELSE /\ topicsIndex' =
                               [topicsIndex EXCEPT ![t].documentCount =
                                   Cardinality(DOMAIN documents)]
                        /\ folderChunkStats' =
                               IF t \in DOMAIN folderChunkStats
                               THEN [folderChunkStats EXCEPT ![t] =
                                        RemoveFolderChunkStats(
                                            @, watchFoldersConfig, filePath)]
                               ELSE folderChunkStats
                        /\ lastCall' = Call("removeDocumentByFilePath", t,
                                            "ok", TRUE)
    /\ UNCHANGED <<storeMetadata, currentModel, availableModels, archive,
                   nextTopicId, nextDocumentId, watchFoldersConfig>>

getVectorStore(t, load) ==
    LET got == GetVectorStore(t, load)
    IN  /\ t \in DOMAIN topicsIndex
        /\ vectorStoreCache' = got.cache
        /\ lastCall' = Call("getVectorStore", t, got.outcome,
                            [store |-> got.store, error |-> got.error,
                             opened |-> got.opened])
        /\ UNCHANGED <<topicsIndex, topicDocuments, storeMetadata, currentModel,
                       availableModels, archive, nextTopicId, nextDocumentId,
                       folderVars>>

\* deleteTopicVectorStore: the store, the cached handle and the folder
\* statistics go; the documents and the index entry stay.
deleteTopicVectorStore(t) ==
    /\ IF t \notin DOMAIN topicsIndex
       THEN /\ lastCall' = Call("deleteTopicVectorStore", t, "error",
                                "Topic not found")
            /\ UNCHANGED <<vectorStoreCache, storeMetadata, folderChunkStats>>
       ELSE /\ storeMetadata' = Remove(storeMetadata, t)
            /\ vectorStoreCache' = Remove(vectorStoreCache, t)
            /\ folderChunkStats' = Remove(folderChunkStats, t)
            /\ lastCall' = Call("deleteTopicVectorStore", t, "ok", <<>>)
    /\ UNCHANGED <<topicsIndex, topicDocuments, currentModel, availableModels,
                   archive, nextTopicId, nextDocumentId, watchFoldersConfig>>

\* deleteTopic: the store and its metadata file, the cached handle, the
\* documents and the index entry go; the folder statistics stay.
deleteTopic(t) ==
    /\ IF t \notin DOMAIN topicsIndex
       THEN /\ lastCall' = Call("deleteTopic", t, "error", "Topic not found")
            /\ UNCHANGED <<topicsIndex, topicDocuments, vectorStoreCache,
                           storeMetadata>>
       ELSE /\ storeMetadata' = Remove(storeMetadata, t)
            /\ vectorStoreCache' = Remove(vectorStoreCache, t)
            /\ topicDocuments' = Remove(topicDocuments, t)
            /\ topicsIndex' = Remove(topicsIndex, t)
            /\ lastCall' = Call("deleteTopic", t, "ok", <<>>)
    /\ UNCHANGED <<currentModel, availableModels, archive, nextTopicId,
                   nextDocumentId, folderVars>>

updateTopic(t, name) ==
    /\ IF t \notin DOMAIN topicsIndex
       THEN /\ lastCall' = Call("updateTopic", t, "error", "Topic not found")
            /\ UNCHANGED topicsIndex
       ELSE IF /\ name # topicsIndex[t].name
               /\ FindByName(topicsIndex, name, t) # {}
       THEN /\ lastCall' = Call("updateTopic", t, "error", name)
            /\ UNCHANGED topicsIndex
       ELSE /\ topicsIndex' = [topicsIndex EXCEPT ![t].name = name]
            /\ lastCall' = Call("updateTopic", t, "ok", name)
    /\ UNCHANGED <<topicDocuments, vectorStoreCache, storeMetadata, currentModel,
                   availableModels, archive, nextTopicId, nextDocumentId,
                   folderVars>>

\* exportTopic: topic.json holds a copy of the topic and its documents; the
\* vector metadata file is added when it exists.
exportTopic(t) ==
    /\ IF isCommonTopic(t)
       THEN /\ lastCall' = Call("exportTopic", t, "error",
                                "Cannot export topics from common database")
            /\ UNCHANGED archive
       ELSE IF t \notin DOMAIN topicsIndex
       THEN /\ lastCall' = Call("exportTopic", t, "error", "Topic not found")
            /\ UNCHANGED archive
       ELSE /\ archive' =
                   << [topic |-> [id |-> t,
                                  name |-> topicsIndex[t].name,
                                  documentCount |-> topicsIndex[t].documentCount],
                       documents |-> GetTopicDocuments(t),
                       vectorMetadata |-> StoredModel(t)] >>
            /\ lastCall' = Call("exportTopic", t, "ok", <<>>)
    /\ UNCHANGED <<topicsIndex, topicDocuments, vectorStoreCache, storeMetadata,
                   currentModel, availableModels, nextTopicId, nextDocumentId,
                   folderVars>>

\* importTopic: the exported topic is copied under a new ID, renamed once
\* when its name is taken; every document gets a new ID and the new topic's
\* ID, in archive order.
importTopic ==
    /\ nextTopicId <= MaxTopicIds
    /\ IF archive = <<>>
       THEN /\ lastCall' = Call("importTopic", NoTopic, "error", "Invalid archive")
            /\ UNCHANGED <<topicsIndex, topicDocuments, storeMetadata,
                           nextTopicId, nextDocumentId>>
       ELSE LET exportData == archive[1]
                newTopicId == nextTopicId
                name == IF FindByName(topicsIndex, exportData.topic.name, NoTopic) # {}
                        THEN WithImportedSuffix(exportData.topic.name)
                        ELSE exportData.topic.name
                newTopic == [name |-> name,
                             documentCount |-> exportData.topic.documentCount]
                count == Len(exportData.documents)
                newDocuments ==
                    [i \in 1..count |->
                        [exportData.documents[i] EXCEPT
                            !.id = nextDocumentId + i - 1,
                            !.topicId = newTopicId]]
                documentsMap ==
                    [d \in { newDocuments[i].id : i \in 1..count } |->
                        newDocuments[d - nextDocumentId + 1]]
            IN  /\ nextDocumentId + count - 1 <= MaxDocumentIds
                /\ storeMetadata' =
                       IF exportData.vectorMetadata # NoModel
                       THEN Extend(storeMetadata, newTopicId,
                                   exportData.vectorMetadata)
                       ELSE storeMetadata
                /\ topicsIndex' = Extend(topicsIndex, newTopicId, newTopic)
                /\ topicDocuments' = Extend(topicDocuments, newTopicId, documentsMap)
                /\ nextTopicId' = nextTopicId + 1
                /\ nextDocumentId' = nextDocumentId + count
                /\ lastCall' = Call("importTopic", newTopicId, "ok", name)
    /\ UNCHANGED <<vectorStoreCache, currentModel, availableModels, archive,
                   folderVars>>

\* reinitializeWithNewModel: every cached handle is dropped.
reinitializeWithNewModel ==
    /\ vectorStoreCache' = <<>>
    /\ lastCall' = Call("reinitializeWithNewModel", NoTopic, "ok", <<>>)
    /\ UNCHANGED <<topicsIndex, topicDocuments, storeMetadata, currentModel,
                   availableModels, archive, nextTopicId, nextDocumentId,
                   folderVars>>

\* embeddingService.initialize(m): m is downloaded if need be and becomes
\* the active model.
EmbeddingInitialize(m) ==
    /\ m # currentModel
    /\ currentModel' = m
    /\ availableModels' = availableModels \cup {m}
    /\ lastCall' = Call("embeddingService.initialize", NoTopic, "ok", m)
    /\ UNCHANGED <<topicsIndex, topicDocuments, vectorStoreCache, storeMetadata,
                   archive, nextTopicId, nextDocumentId,
                   folderVars>>

\* The user deletes a downloaded model that is not the active one.
RemoveDownloadedModel(m) ==
    /\ m \in availableModels
    /\ m # currentModel
    /\ availableModels' = availableModels \ {m}
    /\ lastCall' = Call("removeDownloadedModel", NoTopic, "ok", m)
    /\ UNCHANGED <<topicsIndex, topicDocuments, vectorStoreCache, storeMetadata,
                   currentModel, archive, nextTopicId, nextDocumentId,
                   folderVars>>

TopicIds == 1..MaxTopicIds

\* The registry: names under create, rename, delete, export and import.
CreateTopic ==
    /\ \E name \in TopicNames : createTopic(name, <<>>)
    /\ UNCHANGED beyondManager

DeleteTopic ==
    /\ \E t \in TopicIds : deleteTopic(t)
    /\ UNCHANGED beyondManager

UpdateTopic ==
    /\ \E t \in TopicIds, name \in TopicNames : updateTopic(t, name)
    /\ UNCHANGED beyondManager

ExportTopic ==
    /\ \E t \in TopicIds : exportTopic(t)
    /\ UNCHANGED beyondManager

ImportTopic ==
    /\ importTopic
    /\ UNCHANGED beyondManager

RegistryNext ==
    \/ CreateTopic
    \/ UpdateTopic
    \/ DeleteTopic
    \/ ExportTopic
    \/ ImportTopic

\* Documents: counts under add, remove, export and import.
DocumentTopicIds == 1..MaxDocumentTopics

DocumentFiles == { f \in FileInputs : f.filePath = <<"w", "a.md">> }

DocumentBatches(lo) == UNION { [1..n -> DocumentFiles] : n \in lo..MaxBatch }

DocumentsCreateTopic ==
    /\ nextTopicId <= MaxDocumentTopics
    /\ \E files \in DocumentBatches(0) :
           createTopic([text |-> "Docs", imported |-> 0], files)
    /\ UNCHANGED beyondManager

DocumentsAdd ==
    /\ \E t \in DocumentTopicIds, files \in DocumentBatches(1) :
           addDocuments(t, files)
    /\ UNCHANGED beyondManager

DocumentsRemove ==
    /\ \E t \in DocumentTopicIds, p \in DocPaths, load \in LoadOutcomes :
           removeDocumentByFilePath(t, p, load)
    /\ UNCHANGED beyondManager

DocumentsExport ==
    /\ \E t \in DocumentTopicIds : exportTopic(t)
    /\ UNCHANGED beyondManager

DocumentsImport ==
    /\ nextTopicId <= MaxDocumentTopics
    /\ importTopic
    /\ UNCHANGED beyondManager

DocumentsNext ==
    \/ DocumentsCreateTopic
    \/ DocumentsAdd
    \/ DocumentsRemove
    \/ DocumentsExport
    \/ DocumentsImport

\* Vector-store handles under changes of the embedding model.
StoreTopicIds == 1..MaxStoreTopics

StoreFiles ==
    { <<>>,
      << [filePath |-> <<"w", "a.md">>,
          pipelineResult |-> [success |-> TRUE, chunksStored |-> 1]] >> }

StoreCreateTopic ==
    /\ nextTopicId <= MaxStoreTopics
    /\ \E files \in StoreFiles :
           createTopic([text |-> "Notes", imported |-> nextTopicId - 1], files)
    /\ UNCHANGED beyondManager

StoreDeleteTopic ==
    /\ \E t \in StoreTopicIds : deleteTopic(t)
    /\ UNCHANGED beyondManager

GetStore ==
    /\ \E t \in StoreTopicIds, load \in LoadOutcomes : getVectorStore(t, load)
    /\ UNCHANGED beyondManager

Reinitialize ==
    /\ reinitializeWithNewModel
    /\ UNCHANGED beyondManager

SwitchModel ==
    /\ \E m \in Models : EmbeddingInitialize(m)
    /\ UNCHANGED beyondManager

DropModel ==
    /\ \E m \in Models : RemoveDownloadedModel(m)
    /\ UNCHANGED beyondManager

StoreNext ==
    \/ StoreCreateTopic
    \/ StoreDeleteTopic
    \/ GetStore
    \/ Reinitialize
    \/ SwitchModel
    \/ DropModel

----------------------------------------------------------------------------
(* RestServer: GET /search *)
(*                                                                         *)
(* handleSearch runs up to its next await in one step; a request record    *)
(* holds where the handler stands (pc) and its locals.                     *)

SearchRequests == {1, 2}

MaxSearchTopics == 2

IdleRequest ==
    [pc |-> "idle", topicId |-> NoTopic, topicModel |-> NoModel,
     status |-> 0, queryModel |-> NoModel, storedModel |-> NoModel,
     error |-> NoError]

SearchVarsInit ==
    /\ searchRequests = [r \in SearchRequests |-> IdleRequest]
    /\ agentCache = <<>>

NoRequestInFlight ==
    \A r \in SearchRequests : searchRequests[r].pc \in {"idle", "done"}

Respond(req, status, error) ==
    [req EXCEPT !.pc = "done", !.status = status, !.error = error]

\* Lines 305-316: the agent of the topic from the cache, or the start of
\* getVectorStore for a new one.
AgentLookup(req, cache) ==
    IF req.topicId \in DOMAIN cache
    THEN [req EXCEPT !.pc = "querying"]
    ELSE [req EXCEPT !.pc = "gettingStore"]

\* The request arrives; the target topic is found and getTopicStats starts,
\* reading the active model as the default for a topic without metadata.
SearchBegin(r, t) ==
    /\ searchRequests[r].pc = "idle"
    /\ t \in DOMAIN topicsIndex
    /\ searchRequests' =
           [searchRequests EXCEPT ![r] =
               [@ EXCEPT !.pc = "stats", !.topicId = t, !.topicModel = currentModel]]
    /\ UNCHANGED <<agentCache, folderVars, managerVars>>

\* The request names a topic that does not exist, or there is no topic.
SearchNotFound(r) ==
    /\ searchRequests[r].pc = "idle"
    /\ searchRequests' = [searchRequests EXCEPT ![r] = Respond(@, 404, NoError)]
    /\ UNCHANGED <<agentCache, folderVars, managerVars>>

\* getTopicStats has answered: the stored model is compared with the model
\* active now; on a difference embeddingService.initialize starts.
SearchStats(r) ==
    LET req == searchRequests[r]
        topicModel == IF StoredModel(req.topicId) # NoModel
                      THEN StoredModel(req.topicId) ELSE req.topicModel
    IN  /\ req.pc = "stats"
        /\ searchRequests' =
               [searchRequests EXCEPT ![r] =
                   IF topicModel # currentModel
                   THEN [req EXCEPT !.pc = "switching", !.topicModel = topicModel,
                                    !.error = MismatchError(topicModel, currentModel)]
                   ELSE AgentLookup([req EXCEPT !.topicModel = topicModel],
                                    agentCache)]
        /\ UNCHANGED <<agentCache, folderVars, managerVars>>

\* embeddingService.initialize(topicModel) has ended: the model is active
\* and the agent cache is cleared, or the response is the error that names
\* the topic's model and the model that was active.
SearchSwitched(r, ok) ==
    LET req == searchRequests[r]
    IN  /\ req.pc = "switching"
        /\ IF ok
           THEN /\ currentModel' = req.topicModel
                /\ availableModels' = availableModels \cup {req.topicModel}
                /\ agentCache' = <<>>
                /\ searchRequests' =
                       [searchRequests EXCEPT ![r] =
                           AgentLookup([req EXCEPT !.error = NoError], <<>>)]
           ELSE /\ searchRequests' =
                       [searchRequests EXCEPT ![r] = Respond(req, 500, req.error)]
                /\ UNCHANGED <<currentModel, availableModels, agentCache>>
        /\ UNCHANGED <<topicsIndex, topicDocuments, vectorStoreCache, storeMetadata,
                       archive, nextTopicId, nextDocumentId, lastCall,
                       folderVars>>

\* getVectorStore has ended: an error or no store is a 500 response; with
\* a store agent.initialize starts.
SearchGotStore(r, load) ==
    LET req == searchRequests[r]
        got == GetVectorStore(req.topicId, load)
    IN  /\ req.pc = "gettingStore"
        /\ vectorStoreCache' = got.cache
        /\ lastCall' = Call("getVectorStore", req.topicId, got.outcome,
                            [store |-> got.store, error |-> got.error,
                             opened |-> got.opened])
        /\ searchRequests' =
               [searchRequests EXCEPT ![r] =
                   IF got.outcome = "handle"
                   THEN [req EXCEPT !.pc = "agentInit"]
                   ELSE Respond(req, 500, got.error)]
        /\ UNCHANGED <<agentCache, topicsIndex, topicDocuments, storeMetadata,
                       currentModel, availableModels, archive, nextTopicId,
                       nextDocumentId, folderVars>>

\* agent.initialize has ended: the agent enters the cache and the query starts.
SearchAgentInitialized(r, ok) ==
    LET req == searchRequests[r]
    IN  /\ req.pc = "agentInit"
        /\ IF ok
           THEN /\ agentCache' = Extend(agentCache, req.topicId,
                                        StoreHandle(req.topicId))
                /\ searchRequests' =
                       [searchRequests EXCEPT ![r] = [req EXCEPT !.pc = "querying"]]
           ELSE /\ searchRequests' =
                       [searchRequests EXCEPT ![r] = Respond(req, 500, NoError)]
                /\ UNCHANGED agentCache
        /\ UNCHANGED <<folderVars, managerVars>>

\* agent.query runs: the query is embedded with the model active now, and
\* the results are sent.
SearchQueried(r, ok) ==
    LET req == searchRequests[r]
    IN  /\ req.pc = "querying"
        /\ searchRequests' =
               [searchRequests EXCEPT ![r] =
                   IF ok
                   THEN [req EXCEPT !.pc = "done", !.status = 200,
                                    !.queryModel = currentModel,
                                    !.storedModel = StoredModel(req.topicId)]
                   ELSE Respond(req, 500, NoError)]
        /\ UNCHANGED <<agentCache, folderVars, managerVars>>

\* Before the requests arrive: topics are ingested under some model.
SearchCreateTopic ==
    /\ NoRequestInFlight
    /\ nextTopicId <= MaxSearchTopics
    /\ \E files \in StoreFiles :
           createTopic([text |-> "Notes", imported |-> nextTopicId - 1], files)
    /\ UNCHANGED beyondManager

SearchSetModel ==
    /\ \A r \in SearchRequests : searchRequests[r].pc = "idle"
    /\ \E m \in Models : EmbeddingInitialize(m)
    /\ UNCHANGED beyondManager

SearchNext ==
    \/ SearchCreateTopic
    \/ SearchSetModel
    \/ \E r \in SearchRequests, t \in 1..MaxSearchTopics :
           SearchBegin(r, t) /\ UNCHANGED beyondSearch
    \/ \E r \in SearchRequests :
           SearchNotFound(r) /\ UNCHANGED beyondSearch
    \/ \E r \in SearchRequests :
           SearchStats(r) /\ UNCHANGED beyondSearch
    \/ \E r \in SearchRequests, ok \in BOOLEAN :
           SearchSwitched(r, ok) /\ UNCHANGED beyondSearch
    \/ \E r \in SearchRequests, load \in LoadOutcomes :
           SearchGotStore(r, load) /\ UNCHANGED beyondSearch
    \/ \E r \in SearchRequests, ok \in BOOLEAN :
           SearchAgentInitialized(r, ok) /\ UNCHANGED beyondSearch
    \/ \E r \in SearchRequests, ok \in BOOLEAN :
           SearchQueried(r, ok) /\ UNCHANGED beyondSearch

----------------------------------------------------------------------------
(* TopicManager: the singleton and its initialization                      *)
(*                                                                         *)
(* init() is in flight from its call to its end; its awaits are one step.  *)
(* A caller suspended on a promise continues in a step of its own once     *)
(* the promise is settled; continuations of different callers and new      *)
(* calls run in any order.                                                 *)

Callers == {1, 2, 3}

MaxInstances == 2
MaxInitExecutions == 3

IdleCaller == [pc |-> "idle", op |-> "none", promise |-> NoPromise, result |-> NoInstance]

SingletonVarsInit ==
    /\ instance = NoInstance
    /\ initPromise = NoPromise
    /\ isInitialized = <<>>
    /\ initExecutions = <<>>
    /\ callers = [c \in Callers |-> IdleCaller]
    /\ references = {}

NextInstance == Cardinality(DOMAIN isInitialized) + 1

NextPromise == Cardinality(DOMAIN initExecutions) + 1

\* init() called on instance i with the flags `flags`: it returns at once
\* when the instance is initialized, and is in flight otherwise.
StartInit(i, flags) ==
    [instance |-> i, state |-> IF flags[i] THEN "resolved" ELSE "pending"]

InFlight == { p \in DOMAIN initExecutions : initExecutions[p].state = "pending" }

Returned(caller, i) == [caller EXCEPT !.pc = "returned", !.result = i]

Threw(caller) == [caller EXCEPT !.pc = "threw", !.result = NoInstance]

\* Lines 121-127 of getInstance: the instance is returned when it is
\* initialized; otherwise the singleton is cleared and the call throws.
\* (With no instance left the read of its flag throws.)
VerifyInitialized(c, inst, flags) ==
    IF inst # NoInstance /\ flags[inst]
    THEN /\ instance' = inst
         /\ callers' = [callers EXCEPT ![c] = Returned(@, inst)]
         /\ references' = references \cup {inst}
    ELSE /\ instance' = NoInstance
         /\ callers' = [callers EXCEPT ![c] = Threw(@)]
         /\ UNCHANGED references

\* getInstance(context?) up to its await.
getInstance(c, withContext) ==
    /\ callers[c].pc = "idle"
    /\ IF instance = NoInstance /\ ~withContext
       THEN /\ callers' = [callers EXCEPT ![c] = Threw([@ EXCEPT !.op = "getInstance"])]
            /\ UNCHANGED <<instance, initPromise, isInitialized, initExecutions,
                           references>>
       ELSE IF instance = NoInstance
       THEN /\ NextInstance <= MaxInstances
            /\ NextPromise <= MaxInitExecutions
            /\ instance' = NextInstance
            /\ isInitialized' = Extend(isInitialized, NextInstance, FALSE)
            /\ initExecutions' =
                   Extend(initExecutions, NextPromise,
                          [instance |-> NextInstance, state |-> "pending"])
            /\ initPromise' = NextPromise
            /\ callers' = [callers EXCEPT ![c] =
                              [pc |-> "awaitInit", op |-> "getInstance",
                               promise |-> NextPromise, result |-> NoInstance]]
            /\ UNCHANGED references
       ELSE IF initPromise # NoPromise
       THEN /\ callers' = [callers EXCEPT ![c] =
                              [pc |-> "awaitInit", op |-> "getInstance",
                               promise |-> initPromise, result |-> NoInstance]]
            /\ UNCHANGED <<instance, initPromise, isInitialized, initExecutions,
                           references>>
       ELSE /\ VerifyInitialized(c, instance, isInitialized)
            /\ UNCHANGED <<initPromise, isInitialized, initExecutions>>
    /\ UNCHANGED <<folderVars, managerVars, searchVars, beyondSingleton>>

\* getInstance after its await: the failure handling, the finally block
\* and the check of the flag.
getInstanceContinue(c) ==
    /\ callers[c].pc = "awaitInit"
    /\ initExecutions[callers[c].promise].state # "pending"
    /\ initPromise' = NoPromise
    /\ IF initExecutions[callers[c].promise].state = "rejected"
       THEN /\ instance' = NoInstance
            /\ callers' = [callers EXCEPT ![c] = Threw(@)]
            /\ UNCHANGED references
       ELSE VerifyInitialized(c, instance, isInitialized)
    /\ UNCHANGED <<isInitialized, initExecutions>>
    /\ UNCHANGED <<folderVars, managerVars, searchVars, beyondSingleton>>

\* An init() in flight ends: the flag is set at its very end, or it throws.
initEnds(p, ok) ==
    /\ p \in InFlight
    /\ initExecutions' =
           [initExecutions EXCEPT ![p].state = IF ok THEN "resolved" ELSE "rejected"]
    /\ isInitialized' =
           IF ok THEN [isInitialized EXCEPT ![initExecutions[p].instance] = TRUE]
           ELSE isInitialized
    /\ UNCHANGED <<instance, initPromise, callers, references>>
    /\ UNCHANGED <<folderVars, managerVars, searchVars, beyondSingleton>>

\* ensureInitialized() on an instance the caller holds.
ensureInitialized(c, i) ==
    /\ callers[c].pc = "idle"
    /\ i \in references
    /\ IF isInitialized[i]
       THEN /\ callers' = [callers EXCEPT ![c] =
                              Returned([@ EXCEPT !.op = "ensureInitialized"], i)]
            /\ UNCHANGED initExecutions
       ELSE /\ NextPromise <= MaxInitExecutions
            /\ initExecutions' =
                   Extend(initExecutions, NextPromise, StartInit(i, isInitialized))
            /\ callers' = [callers EXCEPT ![c] =
                              [pc |-> "awaitEnsure", op |-> "ensureInitialized",
                               promise |-> NextPromise, result |-> NoInstance]]
    /\ UNCHANGED <<instance, initPromise, isInitialized, references>>
    /\ UNCHANGED <<folderVars, managerVars, searchVars, beyondSingleton>>

ensureInitializedContinue(c) ==
    /\ callers[c].pc = "awaitEnsure"
    /\ initExecutions[callers[c].promise].state # "pending"
    /\ callers' =
           [callers EXCEPT ![c] =
               IF initExecutions[callers[c].promise].state = "resolved"
               THEN Returned(@, initExecutions[callers[c].promise].instance)
               ELSE Threw(@)]
    /\ UNCHANGED <<instance, initPromise, isInitialized, initExecutions, references>>
    /\ UNCHANGED <<folderVars, managerVars, searchVars, beyondSingleton>>

\* dispose() on an instance some caller holds: the caches and the index
\* are dropped and the flag is reset.
dispose(i) ==
    /\ i \in references
    /\ isInitialized[i]
    /\ isInitialized' = [isInitialized EXCEPT ![i] = FALSE]
    /\ vectorStoreCache' = <<>>
    /\ topicDocuments' = <<>>
    /\ topicsIndex' = <<>>
    /\ UNCHANGED <<instance, initPromise, initExecutions, callers, references>>
    /\ UNCHANGED <<storeMetadata, currentModel, availableModels, archive,
                   nextTopicId, nextDocumentId, lastCall, folderVars, searchVars,
                   beyondSingleton>>

\* The caller has its answer and may call again.
CallerDone(c) ==
    /\ callers[c].pc \in {"returned", "threw"}
    /\ callers' = [callers EXCEPT ![c] = IdleCaller]
    /\ UNCHANGED <<instance, initPromise, isInitialized, initExecutions, references>>
    /\ UNCHANGED <<folderVars, managerVars, searchVars, beyondSingleton>>

SingletonNext ==
    \/ \E c \in Callers, withContext \in BOOLEAN : getInstance(c, withContext)
    \/ \E c \in Callers : getInstanceContinue(c)
    \/ \E p \in 1..MaxInitExecutions, ok \in BOOLEAN : initEnds(p, ok)
    \/ \E c \in Callers, i \in 1..MaxInstances : ensureInitialized(c, i)
    \/ \E c \in Callers : ensureInitializedContinue(c)
    \/ \E i \in 1..MaxInstances : dispose(i)
    \/ \E c \in Callers : CallerDone(c)

----------------------------------------------------------------------------
(* ProgressTracker: progress records and the pause flag                    *)
(*                                                                         *)
(* A progress record is [totalFiles, processedFiles, stage].  pause() and  *)
(* resume() are commands and run between steps; a caller released by       *)
(* resume() continues before any other command runs, so its continuation   *)
(* up to its next await belongs to the step of resume().                   *)

MaxExpiryTimers == 1

TrackerVarsInit ==
    /\ isPaused = FALSE
    /\ pauseResolvers = <<>>
    /\ activeOperations = <<>>
    /\ expiryTimers = <<>>

Step(op, outcome, value) == [op |-> op, outcome |-> outcome, value |-> value]

StartTracking(operations, t, totalFiles) ==
    Extend(operations, t,
           [totalFiles |-> totalFiles, processedFiles |-> 0, stage |-> "loading"])

UpdateProgress(operations, t, stage, processedFiles) ==
    IF t \notin DOMAIN operations
    THEN operations
    ELSE [operations EXCEPT ![t].stage = stage,
                            ![t].processedFiles = processedFiles]

CompleteTracking(operations, t) ==
    IF t \notin DOMAIN operations
    THEN operations
    ELSE [operations EXCEPT ![t].stage = "complete",
                            ![t].processedFiles = operations[t].totalFiles]

CancelTracking(operations, t) == Remove(operations, t)

\* A variant of waitIfPaused that never suspends its caller.
waitIfPausedNever(paused) == FALSE

\* waitIfPaused: TRUE when the caller is suspended until resume().
waitIfPaused(paused) == paused

\* pauseResolvers.get(topicId).push(resolve)
PushResolver(resolvers, t) ==
    Extend(resolvers, t, IF t \in DOMAIN resolvers THEN resolvers[t] + 1 ELSE 1)

Count(counters, k) == IF k \in DOMAIN counters THEN counters[k] ELSE 0

\* completeTracking arms a timer that deletes the record it completed.
ArmExpiry(armed, operations, t) ==
    IF t \in DOMAIN operations
    THEN Extend(armed, t, Count(armed, t) + 1)
    ELSE armed

ArmedExpiries == SumOver(DOMAIN expiryTimers, expiryTimers)

----------------------------------------------------------------------------
(* FileWatcherService: debounce, batches and the seed scan                 *)
(*                                                                         *)
(* Time is counted in units of which the debounce delay (2000 ms) is       *)
(* DebounceTicks.  An armed timer whose delay is used up fires in a step   *)
(* of its own; events may still arrive before it does.  The variable       *)
(* batch follows one invocation of processQueuedChanges or of the seed     *)
(* scan, the latest started.                                               *)

DebounceTicks == 2
MaxTimers == 2
MaxSeedTimers == 1

NoTimer == 0

TimerHandles == 1..MaxTimers

DefaultTopicName == [text |-> "Default", imported |-> 0]

\* DEFAULTS.INCLUDE_EXTENSIONS, lower-cased by initialize
IncludeExtensions == {".pdf", ".md", ".markdown", ".html", ".htm", ".txt"}

\* Paths of the events the watchers deliver.
EventPaths ==
    { <<"w", "a.md">>, <<"w", "d", "c.md">>, <<"w", "N.MD">>, <<"w", "i.png">> }

\* path.extname, on the file names that occur
Extname(p) ==
    LET name == Basename(p)
    IN  IF name \in {"a.md", "b.md", "c.md", "e.md"} THEN ".md"
        ELSE IF name = "N.MD" THEN ".MD"
        ELSE IF name = "i.png" THEN ".png"
        ELSE ""

\* String.prototype.toLowerCase on an extension
LowerExtension(ext) == IF ext = ".MD" THEN ".md" ELSE ext

\* The extension test of handleFileChange
HasSupportedExtension(p) ==
    \E e \in IncludeExtensions : LowerExtension(e) = LowerExtension(Extname(p))

Range(s) == { s[i] : i \in 1..Len(s) }

\* Set.prototype.add: insertion order is kept, a member is not added twice.
SetAdd(s, x) == IF x \in Range(s) THEN s ELSE Append(s, x)

\* A variant of clearTimeout that leaves the timer armed.
ClearTimeoutKeeps(armed, h) == armed

\* clearTimeout(h): the timer h is no longer armed.
ClearTimeout(armed, h) == [x \in (DOMAIN armed) \ {h} |-> armed[x]]

\* The sequences of n distinct members of S
RECURSIVE DistinctSeqs(_, _)
DistinctSeqs(S, n) ==
    IF n = 0 THEN {<<>>}
    ELSE UNION { { Append(s, x) : x \in S \ Range(s) } :
                 s \in DistinctSeqs(S, n - 1) }

IdleBatch ==
    [origin |-> "none", pc |-> "idle", files |-> <<>>, index |-> 0,
     processedCount |-> 0, passed |-> <<>>]

WatcherVarsInit ==
    /\ pendingChanges = <<>>
    /\ updateTimer = NoTimer
    /\ timers = <<>>
    /\ defaultTopicId = NoTopic
    /\ watchers = FALSE
    /\ seedTimers = 0
    /\ sinceLastEvent = DebounceTicks
    /\ batch = IdleBatch
    /\ lastStep = Step("constructor", "ok", <<>>)

\* What no step of the watcher or the tracker touches.
outsideWatcher == <<searchVars, singletonVars, laterVars>>

debounceVars == <<pendingChanges, updateTimer, timers, sinceLastEvent>>

watcherState == <<debounceVars, defaultTopicId, watchers, seedTimers, batch>>

\* setupWatchers: nothing without a default topic.
SetupWatchers == IF defaultTopicId # NoTopic THEN TRUE ELSE watchers

\* ensureDefaultTopic finds the topic named "Default", or creates it.
DefaultTopics ==
    { t \in DOMAIN topicsIndex : topicsIndex[t].name = DefaultTopicName }

\* initialize(), with the watch folders valid or not and watchOnChanges on
\* or off: the default topic is looked up or created, and the seed scan is
\* deferred by a timer.
WatcherInitialize(valid, watch) ==
    /\ defaultTopicId = NoTopic
    /\ watch => seedTimers < MaxSeedTimers
    /\ IF ~valid
       THEN /\ lastStep' = Step("initialize", "no folders", <<>>)
            /\ UNCHANGED <<defaultTopicId, seedTimers, folderVars, managerVars>>
       ELSE /\ IF DefaultTopics # {}
               THEN /\ defaultTopicId' = Min(DefaultTopics)
                    /\ UNCHANGED <<folderVars, managerVars>>
               ELSE /\ createTopic(DefaultTopicName, <<>>)
                    /\ defaultTopicId' = lastCall'.topicId
            /\ seedTimers' = IF watch /\ defaultTopicId' # NoTopic
                              THEN seedTimers + 1 ELSE seedTimers
            /\ lastStep' = Step("initialize",
                                IF defaultTopicId' # NoTopic THEN "ok" ELSE "error",
                                watch)
    /\ UNCHANGED <<debounceVars, watchers, batch, trackerVars, outsideWatcher>>

\* The deferred seed scan starts: watchOnChanges is read again, the files
\* of the watch folders are collected (found), tracking starts and the scan
\* runs up to its first await.  Without files the watchers are set up.
SeedFires(enabled, found) ==
    /\ seedTimers > 0
    /\ seedTimers' = seedTimers - 1
    /\ IF ~enabled \/ defaultTopicId = NoTopic
       THEN /\ lastStep' = Step("seed", "skipped", <<>>)
            /\ UNCHANGED <<watchers, batch, activeOperations>>
       ELSE IF found = <<>>
       THEN /\ watchers' = SetupWatchers
            /\ lastStep' = Step("seed", "no files", <<>>)
            /\ UNCHANGED <<batch, activeOperations>>
       ELSE /\ activeOperations' =
                   StartTracking(activeOperations, defaultTopicId, Len(found))
            /\ batch' = [IdleBatch EXCEPT !.origin = "seed", !.pc = "ensure",
                                          !.files = found]
            /\ lastStep' = Step("seed", "started", found)
            /\ UNCHANGED watchers
    /\ UNCHANGED <<debounceVars, defaultTopicId, isPaused, pauseResolvers,
                   expiryTimers, folderVars, managerVars, outsideWatcher>>

\* handleFileChange: an event on path p, of any of the three kinds.
handleFileChange(p) ==
    /\ watchers
    /\ IF ~HasSupportedExtension(p)
       THEN /\ lastStep' = Step("handleFileChange", "skipped", p)
            /\ UNCHANGED debounceVars
       ELSE LET free == TimerHandles \ ((DOMAIN timers) \cup {updateTimer})
                cleared == IF updateTimer # NoTimer
                           THEN ClearTimeout(timers, updateTimer)
                           ELSE timers
            IN  /\ free # {}
                /\ pendingChanges' = SetAdd(pendingChanges, p)
                /\ timers' = Extend(cleared, Min(free), DebounceTicks)
                /\ updateTimer' = Min(free)
                /\ sinceLastEvent' = 0
                /\ lastStep' = Step("handleFileChange", "accepted", p)
    /\ UNCHANGED <<defaultTopicId, watchers, seedTimers, batch, trackerVars,
                   folderVars, managerVars, outsideWatcher>>

\* One unit of time passes for the armed timers.
Tick ==
    /\ timers # <<>>
    /\ \A h \in DOMAIN timers : timers[h] > 0
    /\ timers' = [h \in DOMAIN timers |-> timers[h] - 1]
    /\ sinceLastEvent' = Min({sinceLastEvent + 1, DebounceTicks})
    /\ lastStep' = Step("tick", "ok", <<>>)
    /\ UNCHANGED <<pendingChanges, updateTimer, defaultTopicId, watchers,
                   seedTimers, batch, trackerVars, folderVars, managerVars,
                   outsideWatcher>>

\* The timer h fires: processQueuedChanges up to its first await.
TimerFires(h) ==
    /\ h \in DOMAIN timers
    /\ timers[h] = 0
    /\ timers' = Remove(timers, h)
    /\ IF pendingChanges = <<>> \/ defaultTopicId = NoTopic
       THEN /\ lastStep' = Step("processQueuedChanges", "skipped", <<>>)
            /\ UNCHANGED <<pendingChanges, updateTimer, batch>>
       ELSE /\ batch' = [IdleBatch EXCEPT !.origin = "watcher",
                                          !.pc = "filtering",
                                          !.files = pendingChanges]
            /\ pendingChanges' = <<>>
            /\ updateTimer' = NoTimer
            /\ lastStep' = Step("processQueuedChanges", "batch", pendingChanges)
    /\ UNCHANGED <<sinceLastEvent, defaultTopicId, watchers, seedTimers,
                   trackerVars, folderVars, managerVars, outsideWatcher>>

\* What dispose() sets.
Disposed ==
    /\ timers' = IF updateTimer # NoTimer
                 THEN ClearTimeout(timers, updateTimer) ELSE timers
    /\ updateTimer' = NoTimer
    /\ watchers' = FALSE
    /\ pendingChanges' = <<>>
    /\ defaultTopicId' = NoTopic
    /\ lastStep' = Step("dispose", "ok", <<>>)

\* dispose() of the watcher
WatcherDispose ==
    /\ Disposed
    /\ UNCHANGED <<sinceLastEvent, seedTimers, batch, trackerVars, folderVars,
                   managerVars, outsideWatcher>>

\* The add loop reaches file i: the batch waits when indexing is paused,
\* and passes the file to addDocuments otherwise; after the last file the
\* batch is complete.
AddStarts(b) ==
    [b EXCEPT !.pc = "adding", !.passed = Append(@, b.files[b.index])]

AtAddLoop(b, i) ==
    IF i > Len(b.files)
    THEN [b EXCEPT !.pc = "complete", !.index = i]
    ELSE IF waitIfPaused(isPaused)
    THEN [b EXCEPT !.pc = "addPaused", !.index = i]
    ELSE AddStarts([b EXCEPT !.index = i])

\* The removal loop reaches file i; after the last file the add loop
\* starts with processedCount = 0.
RemovalStarts(b) == [b EXCEPT !.pc = "removing"]

AtRemovalLoop(b, i) ==
    IF i > Len(b.files)
    THEN AtAddLoop([b EXCEPT !.processedCount = 0], 1)
    ELSE IF waitIfPaused(isPaused)
    THEN [b EXCEPT !.pc = "removePaused", !.index = i]
    ELSE RemovalStarts([b EXCEPT !.index = i])

\* The batch goes on to `next`, its state at its next await: a waiter is
\* recorded, the removal is reported, or tracking is completed; a
\* completed seed scan sets the watchers up.
BatchContinues(next) ==
    LET t == defaultTopicId
        complete == next.pc = "complete"
    IN  /\ complete /\ t \in DOMAIN activeOperations
               => ArmedExpiries < MaxExpiryTimers
        /\ batch' = IF complete THEN IdleBatch ELSE next
        /\ pauseResolvers' =
               IF next.pc \in {"removePaused", "addPaused"}
               THEN PushResolver(pauseResolvers, t)
               ELSE pauseResolvers
        /\ activeOperations' =
               IF next.pc = "removing"
               THEN UpdateProgress(activeOperations, t, "removing",
                                   next.processedCount)
               ELSE IF complete
               THEN CompleteTracking(activeOperations, t)
               ELSE activeOperations
        /\ expiryTimers' =
               IF complete
               THEN ArmExpiry(expiryTimers, activeOperations, t)
               ELSE expiryTimers
        /\ watchers' = IF complete /\ next.origin = "seed"
                       THEN SetupWatchers ELSE watchers

\* A variant of the filter that goes on with every pending path, whatever
\* fs.access has answered.
BatchUnfiltered(existing) ==
    /\ batch.pc = "filtering"
    /\ existing \subseteq Range(batch.files)
    /\ batch' = [batch EXCEPT !.pc = "ensure"]
    /\ activeOperations' =
           StartTracking(activeOperations, defaultTopicId, Len(batch.files))
    /\ lastStep' = Step("filter", "ok",
                        SelectSeq(batch.files, LAMBDA p : p \in existing))
    /\ UNCHANGED <<debounceVars, defaultTopicId, watchers, seedTimers,
                   isPaused, pauseResolvers, expiryTimers, folderVars,
                   managerVars, outsideWatcher>>

\* fs.access has answered for every file of the batch: the files that
\* exist stay; tracking starts unless none is left.
BatchFiltered(existing) ==
    LET files == SelectSeq(batch.files, LAMBDA p : p \in existing)
    IN  /\ batch.pc = "filtering"
        /\ existing \subseteq Range(batch.files)
        /\ IF files = <<>>
           THEN /\ batch' = IdleBatch
                /\ UNCHANGED activeOperations
           ELSE /\ batch' = [batch EXCEPT !.pc = "ensure", !.files = files]
                /\ activeOperations' =
                       StartTracking(activeOperations, defaultTopicId, Len(files))
        /\ lastStep' = Step("filter", "ok", files)
        /\ UNCHANGED <<debounceVars, defaultTopicId, watchers, seedTimers,
                       isPaused, pauseResolvers, expiryTimers, folderVars,
                       managerVars, outsideWatcher>>

\* topicManager.ensureInitialized() has returned or thrown; a throw ends
\* the batch and cancels its tracking.
BatchEnsured(ok) ==
    /\ batch.pc = "ensure"
    /\ IF ok
       THEN BatchContinues(AtRemovalLoop(batch, 1))
       ELSE /\ batch' = IdleBatch
            /\ activeOperations' =
                   IF batch.origin = "seed" \/ defaultTopicId # NoTopic
                   THEN CancelTracking(activeOperations, defaultTopicId)
                   ELSE activeOperations
            /\ watchers' = IF batch.origin = "seed" THEN SetupWatchers ELSE watchers
            /\ UNCHANGED <<pauseResolvers, expiryTimers>>
    /\ lastStep' = Step("ensureInitialized", IF ok THEN "ok" ELSE "error", <<>>)
    /\ UNCHANGED <<debounceVars, defaultTopicId, seedTimers, isPaused,
                   folderVars, managerVars, outsideWatcher>>

\* removeDocumentByFilePath has ended for the file in the removal loop; an
\* error is caught and the loop goes on.
BatchRemoved(load) ==
    /\ batch.pc = "removing"
    /\ removeDocumentByFilePath(defaultTopicId, batch.files[batch.index], load)
    /\ BatchContinues(AtRemovalLoop(batch, batch.index + 1))
    /\ lastStep' = Step("removed", lastCall'.outcome, batch.files[batch.index])
    /\ UNCHANGED <<debounceVars, defaultTopicId, seedTimers, isPaused,
                   outsideWatcher>>

\* The pipeline reports progress on the file inside it.
BatchOnProgress ==
    /\ batch.pc = "adding"
    /\ activeOperations' =
           UpdateProgress(activeOperations, defaultTopicId, "pipeline",
                          batch.processedCount)
    /\ lastStep' = Step("onProgress", "ok", batch.files[batch.index])
    /\ UNCHANGED <<debounceVars, defaultTopicId, watchers, seedTimers, batch,
                   isPaused, pauseResolvers, expiryTimers, folderVars,
                   managerVars, outsideWatcher>>

\* addDocuments has ended for the file in the add loop, the pipeline
\* having answered `result`; an error is caught and the loop goes on.
BatchAdded(result) ==
    /\ batch.pc = "adding"
    /\ addDocuments(defaultTopicId,
                    << [filePath |-> batch.files[batch.index],
                        pipelineResult |-> result] >>)
    /\ BatchContinues(AtAddLoop([batch EXCEPT !.processedCount = @ + 1],
                                batch.index + 1))
    /\ lastStep' = Step("added", lastCall'.outcome, batch.files[batch.index])
    /\ UNCHANGED <<debounceVars, defaultTopicId, seedTimers, isPaused,
                   outsideWatcher>>

\* pause(): nothing when indexing is paused already.
pause ==
    /\ isPaused' = TRUE
    /\ lastStep' = Step("pause", IF isPaused THEN "already" ELSE "ok", <<>>)
    /\ UNCHANGED <<pauseResolvers, activeOperations, expiryTimers, debounceVars,
                   defaultTopicId, watchers, seedTimers, batch, folderVars,
                   managerVars, outsideWatcher>>

\* resume(): nothing when indexing is not paused; otherwise every waiter
\* is released, and a released batch goes on with the file it waited at.
resume ==
    /\ isPaused' = FALSE
    /\ lastStep' = Step("resume", IF isPaused THEN "ok" ELSE "already", <<>>)
    /\ pauseResolvers' = IF isPaused THEN <<>> ELSE pauseResolvers
    /\ IF isPaused /\ batch.pc = "removePaused"
       THEN /\ batch' = RemovalStarts(batch)
            /\ activeOperations' =
                   UpdateProgress(activeOperations, defaultTopicId, "removing",
                                  batch.processedCount)
       ELSE IF isPaused /\ batch.pc = "addPaused"
       THEN /\ batch' = AddStarts(batch)
            /\ UNCHANGED activeOperations
       ELSE UNCHANGED <<batch, activeOperations>>
    /\ UNCHANGED <<expiryTimers, debounceVars, defaultTopicId, watchers,
                   seedTimers, folderVars, managerVars, outsideWatcher>>

togglePause == IF isPaused THEN resume ELSE pause

\* The timer armed by completeTracking fires: the record of t is deleted.
ProgressExpires(t) ==
    /\ Count(expiryTimers, t) > 0
    /\ expiryTimers' = IF expiryTimers[t] = 1
                       THEN Remove(expiryTimers, t)
                       ELSE [expiryTimers EXCEPT ![t] = @ - 1]
    /\ activeOperations' = Remove(activeOperations, t)
    /\ lastStep' = Step("expire", "ok", t)
    /\ UNCHANGED <<isPaused, pauseResolvers, watcherState, folderVars,
                   managerVars, outsideWatcher>>

\* The debounce alone: events, time, timers and restarts of the watcher;
\* the watch folders hold no file when the seed scan runs.
DebounceInitialize == \E valid, watch \in BOOLEAN : WatcherInitialize(valid, watch)

DebounceSeed == \E enabled \in BOOLEAN : SeedFires(enabled, <<>>)

DebounceEvent == \E p \in EventPaths : handleFileChange(p)

DebounceTimerFires == \E h \in TimerHandles : TimerFires(h)

DebounceNext ==
    \/ DebounceInitialize
    \/ DebounceSeed
    \/ DebounceEvent
    \/ Tick
    \/ DebounceTimerFires
    \/ WatcherDispose

\* One seed scan or watcher batch at a time, with pause and resume: events
\* arrive, time passes and a new batch starts when the one before has ended;
\* the watcher is not restarted.
BatchPaths == { <<"w", "a.md">>, <<"w", "d", "c.md">> }

SeedFiles == UNION { DistinctSeqs(BatchPaths, n) : n \in 1..MaxBatch }

BatchResults ==
    { [success |-> FALSE, chunksStored |-> 0],
      [success |-> TRUE, chunksStored |-> 1] }

BatchInitialize == WatcherInitialize(TRUE, TRUE)

BatchSeed ==
    /\ batch.pc = "idle"
    /\ \E found \in SeedFiles : SeedFires(TRUE, found)

BatchEvent ==
    /\ batch.pc = "idle"
    /\ \E p \in BatchPaths : handleFileChange(p)

BatchTick ==
    /\ batch.pc = "idle"
    /\ Tick

BatchTimerFires ==
    /\ batch.pc = "idle"
    /\ \E h \in TimerHandles : TimerFires(h)

BatchFilter == \E existing \in SUBSET BatchPaths : BatchFiltered(existing)

BatchEnsure == \E ok \in BOOLEAN : BatchEnsured(ok)

BatchRemove == \E load \in {"store", "throws"} : BatchRemoved(load)

BatchAdd == \E result \in BatchResults : BatchAdded(result)

BatchExpire == \E t \in DOMAIN expiryTimers : ProgressExpires(t)

BatchNext ==
    \/ BatchInitialize
    \/ BatchSeed
    \/ BatchEvent
    \/ BatchTick
    \/ BatchTimerFires
    \/ BatchFilter
    \/ BatchEnsure
    \/ BatchRemove
    \/ BatchOnProgress
    \/ BatchAdd
    \/ pause
    \/ resume
    \/ togglePause
    \/ BatchExpire

\* The batches again, with dispose() of the watcher at any moment, also
\* while a seed scan or a watcher batch is in flight, and initialize()
\* after it (updateConfiguration calls the two in a row).
DisposePaths == { <<"w", "a.md">> }

DisposeSeed ==
    /\ batch.pc = "idle"
    /\ SeedFires(TRUE, << <<"w", "a.md">> >>)

DisposeEvent ==
    /\ batch.pc = "idle"
    /\ \E p \in DisposePaths : handleFileChange(p)

DisposeFilter == \E existing \in SUBSET DisposePaths : BatchFiltered(existing)

DisposeNext ==
    \/ BatchInitialize
    \/ DisposeSeed
    \/ DisposeEvent
    \/ BatchTick
    \/ BatchTimerFires
    \/ DisposeFilter
    \/ BatchEnsure
    \/ BatchRemove
    \/ BatchAdd
    \/ pause
    \/ resume
    \/ BatchExpire
    \/ WatcherDispose

----------------------------------------------------------------------------
(***************************************************************************)
(* TopicManager: the common database                                       *)
(*                                                                         *)
(* The common database is a directory written elsewhere: its topics.json   *)
(* and its document files are inputs of the load.  A common topic may      *)
(* bear the ID of a local one, the common directory being a copy of a      *)
(* local database.                                                         *)
(***************************************************************************)

CommonPaths == {NoPath, "/common"}

CommonTopicIds == {1, MaxTopicIds + 1}

CommonNames == { [text |-> x, imported |-> 0] : x \in {"docs", "Notes"} }

\* The topics of the common topics.json.
CommonIndexes ==
    UNION { [ids -> [name : CommonNames, documentCount : {1}]] :
              ids \in SUBSET CommonTopicIds }

\* The common directory: whether it can be accessed, its topics.json
\* (missing, not parseable, or holding topics) and whether the document
\* files of its topics are there.
CommonDisks ==
    [accessible : BOOLEAN, indexFile : {"missing", "corrupt", "ok"},
     topics : CommonIndexes, documents : BOOLEAN]

\* loadCommonTopicDocuments: the documents of topic-<id>-documents.json by
\* ID, or an empty map when the file cannot be read.
CommonDocumentsMap(t, present) ==
    IF present
    THEN [d \in {t} |->
             [id |-> d, topicId |-> t, filePath |-> <<"w", "a.md">>,
              chunkCount |-> 1]]
    ELSE <<>>

\* The common state after a load that was abandoned.
CommonCleared ==
    /\ commonTopicsIndex' = NullIndex
    /\ commonTopicDocuments' = <<>>
    /\ commonDatabasePath' = NoPath

loadCommonDatabase(commonPath, disk) ==
    LET done(outcome) ==
            lastCall' = Call("loadCommonDatabase", NoTopic, outcome,
                             [commonPath |-> commonPath, disk |-> disk])
    IN
    /\ IF commonPath = NoPath
       THEN CommonCleared /\ done("no path")
       ELSE IF ~disk.accessible
       THEN CommonCleared /\ done("failed")
       ELSE IF disk.indexFile = "missing"
       THEN /\ commonTopicsIndex' = NullIndex
            /\ commonTopicDocuments' = <<>>
            /\ commonDatabasePath' = commonPath
            /\ done("no index")
       ELSE IF disk.indexFile = "corrupt"
       THEN CommonCleared /\ done("failed")
       ELSE IF Conflicts(disk.topics, topicsIndex) # {}
       THEN CommonCleared /\ done("conflicts")
       ELSE /\ commonTopicsIndex' = IndexOf(disk.topics)
            /\ commonTopicDocuments' =
                   [t \in DOMAIN commonTopicDocuments \cup DOMAIN disk.topics |->
                       IF t \in DOMAIN disk.topics
                       THEN CommonDocumentsMap(t, disk.documents)
                       ELSE commonTopicDocuments[t]]
            /\ commonDatabasePath' = commonPath
            /\ done("ok")
    /\ UNCHANGED <<topicsIndex, topicDocuments, vectorStoreCache, storeMetadata,
                   currentModel, availableModels, archive, nextTopicId,
                   nextDocumentId, folderVars>>

\* Everything a load leaves alone, besides the manager's own state.
beyondCommon ==
    <<searchVars, singletonVars, watcherVars, trackerVars, afterCommon>>

MaxCommonTopics == 2

\* The one file the local topics of this specification are fed.
CommonFile ==
    [filePath |-> <<"w", "a.md">>,
     pipelineResult |-> [success |-> TRUE, chunksStored |-> 1]]

CommonIds == TopicIds \cup CommonTopicIds

\* The loads tried: one for each way of failing before the index is read,
\* and every index with its document files.
CommonLoads ==
    { load \in [commonPath : CommonPaths, disk : CommonDisks] :
        \/ load.commonPath # NoPath /\ load.disk.accessible
               /\ load.disk.indexFile = "ok" /\ load.disk.documents
        \/ /\ load.disk.topics = <<>>
           /\ load.disk.documents
           /\ load.commonPath = NoPath =>
                  load.disk.accessible /\ load.disk.indexFile = "ok"
           /\ ~load.disk.accessible => load.disk.indexFile = "ok" }

\* A common directory holds an ID of the local generator only as a copy of
\* a topic that generator has made.
CopiedOrForeign(topics) == \A c \in DOMAIN topics \cap TopicIds : c < nextTopicId

CommonLoad ==
    /\ \E load \in CommonLoads :
           /\ CopiedOrForeign(load.disk.topics)
           /\ loadCommonDatabase(load.commonPath, load.disk)
    /\ UNCHANGED beyondCommon

CommonCreateTopic ==
    /\ nextTopicId <= MaxCommonTopics
    /\ \E name \in TopicNames : createTopic(name, <<>>)
    /\ UNCHANGED beyondManager

CommonUpdateTopic ==
    /\ \E t \in TopicIds, name \in TopicNames : updateTopic(t, name)
    /\ UNCHANGED beyondManager

CommonDeleteTopic ==
    /\ \E t \in TopicIds : deleteTopic(t)
    /\ UNCHANGED beyondManager

CommonNext ==
    \/ CommonLoad
    \/ CommonCreateTopic
    \/ CommonUpdateTopic
    \/ CommonDeleteTopic

\* The mutating operations on the IDs of local and of common topics, the
\* common database being loaded from a directory without name conflicts.
ReadOnlyLoads ==
    { load \in CommonLoads :
        /\ load.disk.accessible
        /\ load.disk.indexFile = "ok"
        /\ \A c \in DOMAIN load.disk.topics :
               load.disk.topics[c].name.text = "Notes" }

ReadOnlyLoad ==
    /\ \E load \in ReadOnlyLoads :
           /\ CopiedOrForeign(load.disk.topics)
           /\ loadCommonDatabase(load.commonPath, load.disk)
    /\ UNCHANGED beyondCommon

MaxReadOnlyTopics == 1

ReadOnlyCreateTopic ==
    /\ nextTopicId <= MaxReadOnlyTopics
    /\ \E name \in TopicNames : createTopic(name, <<CommonFile>>)
    /\ UNCHANGED beyondManager

MaxReadOnlyDocuments == 2

ReadOnlyAddDocuments ==
    /\ nextDocumentId <= MaxReadOnlyDocuments
    /\ \E t \in CommonIds : addDocuments(t, <<CommonFile>>)
    /\ UNCHANGED beyondManager

ReadOnlyRemoveDocument ==
    /\ \E t \in CommonIds :
           removeDocumentByFilePath(t, CommonFile.filePath, "store")
    /\ UNCHANGED beyondManager

ReadOnlyUpdateTopic ==
    /\ \E t \in CommonIds, name \in TopicNames : updateTopic(t, name)
    /\ UNCHANGED beyondManager

ReadOnlyDeleteTopic ==
    /\ \E t \in CommonIds : deleteTopic(t)
    /\ UNCHANGED beyondManager

ReadOnlyDeleteTopicVectorStore ==
    /\ \E t \in CommonIds : deleteTopicVectorStore(t)
    /\ UNCHANGED beyondManager

ReadOnlyExportTopic ==
    /\ \E t \in CommonIds : exportTopic(t)
    /\ UNCHANGED beyondManager

ReadOnlyNext ==
    \/ ReadOnlyLoad
    \/ ReadOnlyCreateTopic
    \/ ReadOnlyAddDocuments
    \/ ReadOnlyRemoveDocument
    \/ ReadOnlyUpdateTopic
    \/ ReadOnlyDeleteTopic
    \/ ReadOnlyDeleteTopicVectorStore
    \/ ReadOnlyExportTopic

----------------------------------------------------------------------------
(***************************************************************************)
(* TopicManager: vector-store handles under interleaving                   *)
(*                                                                         *)
(* getVectorStore, deleteTopicVectorStore and reinitializeWithNewModel     *)
(* are followed from await to await.  The factory opens a store some time  *)
(* before the caller that awaits loadStore continues; other continuations  *)
(* may run in between.  staleCached records which cached handles were      *)
(* opened before a deleteTopicVectorStore of their topic completed, or     *)
(* before reinitializeWithNewModel was called.                             *)
(***************************************************************************)

StoreCallers == {1, 2}

MaxHandleTopics == 1

IdleStoreCall == [pc |-> "idle", topicId |-> NoTopic, stale |-> FALSE]

HandleVarsInit ==
    /\ storeCalls = [g \in StoreCallers |-> IdleStoreCall]
    /\ deletions = {}
    /\ reinitializing = "idle"
    /\ staleCached = {}

beyondHandles ==
    <<searchVars, singletonVars, watcherVars, trackerVars, commonVars,
      afterHandles>>

\* The handles that the factory has opened and the caller has not seen yet
\* are older than an invalidation that happens now.
Outdated(calls, topics) ==
    [g \in DOMAIN calls |->
        IF calls[g].pc = "opened" /\ calls[g].topicId \in topics
        THEN [calls[g] EXCEPT !.stale = TRUE]
        ELSE calls[g]]

\* getVectorStore(t) is called: ensureEmbeddingModelCompatibility awaits
\* the metadata of the store.
getVectorStoreStarts(g, t) ==
    /\ storeCalls[g].pc = "idle"
    /\ t \in DOMAIN topicsIndex
    /\ storeCalls' = [storeCalls EXCEPT ![g] = [IdleStoreCall EXCEPT
                                                 !.pc = "checking", !.topicId = t]]
    /\ UNCHANGED <<deletions, reinitializing, staleCached, folderVars,
                   managerVars, beyondHandles>>

\* The models are compatible or not; with compatible models the cached
\* handle is returned, or loadStore is called.
getVectorStoreChecked(g) ==
    LET t == storeCalls[g].topicId
        err == EnsureEmbeddingModelCompatibility(t)
        ends(outcome, store) ==
            /\ storeCalls' = [storeCalls EXCEPT ![g] = IdleStoreCall]
            /\ lastCall' = Call("getVectorStore", t, outcome,
                                [store |-> store, error |-> err, opened |-> FALSE])
    IN  /\ storeCalls[g].pc = "checking"
        /\ IF err # NoError
           THEN ends("error", NoStore)
           ELSE IF t \in DOMAIN vectorStoreCache
           THEN ends("handle", vectorStoreCache[t])
           ELSE /\ storeCalls' = [storeCalls EXCEPT ![g].pc = "loading"]
                /\ UNCHANGED lastCall
        /\ UNCHANGED <<topicsIndex, topicDocuments, vectorStoreCache,
                       storeMetadata, currentModel, availableModels, archive,
                       nextTopicId, nextDocumentId, deletions, reinitializing,
                       staleCached, folderVars, beyondHandles>>

\* The factory has done `load`: it has opened the store, or the caller
\* continues with null or with the error thrown.
loadStoreSettles(g, load) ==
    LET t == storeCalls[g].topicId
    IN  /\ storeCalls[g].pc = "loading"
        /\ IF load = "store"
           THEN /\ storeCalls' = [storeCalls EXCEPT ![g].pc = "opened"]
                /\ UNCHANGED lastCall
           ELSE /\ storeCalls' = [storeCalls EXCEPT ![g] = IdleStoreCall]
                /\ lastCall' =
                       Call("getVectorStore", t,
                            IF load = "null" THEN "null" ELSE "error",
                            [store |-> NoStore,
                             error |-> IF load = "null" THEN NoError ELSE LoadError,
                             opened |-> TRUE])
        /\ UNCHANGED <<topicsIndex, topicDocuments, vectorStoreCache,
                       storeMetadata, currentModel, availableModels, archive,
                       nextTopicId, nextDocumentId, deletions, reinitializing,
                       staleCached, folderVars, beyondHandles>>

\* The caller continues with the store: the handle enters the cache.
getVectorStoreContinues(g) ==
    LET t == storeCalls[g].topicId
    IN  /\ storeCalls[g].pc = "opened"
        /\ vectorStoreCache' = Extend(vectorStoreCache, t, StoreHandle(t))
        /\ staleCached' = IF storeCalls[g].stale
                          THEN staleCached \cup {t} ELSE staleCached \ {t}
        /\ storeCalls' = [storeCalls EXCEPT ![g] = IdleStoreCall]
        /\ lastCall' = Call("getVectorStore", t, "handle",
                            [store |-> StoreHandle(t), error |-> NoError,
                             opened |-> TRUE])
        /\ UNCHANGED <<topicsIndex, topicDocuments, storeMetadata, currentModel,
                       availableModels, archive, nextTopicId, nextDocumentId,
                       deletions, reinitializing, folderVars, beyondHandles>>

\* deleteTopicVectorStore(t) is called: it throws for an unknown topic and
\* awaits deleteStore otherwise.
deleteTopicVectorStoreStarts(t) ==
    /\ t \notin deletions
    /\ IF t \notin DOMAIN topicsIndex
       THEN /\ lastCall' = Call("deleteTopicVectorStore", t, "error",
                                "Topic not found")
            /\ UNCHANGED deletions
       ELSE /\ deletions' = deletions \cup {t}
            /\ UNCHANGED lastCall
    /\ UNCHANGED <<topicsIndex, topicDocuments, vectorStoreCache, storeMetadata,
                   currentModel, availableModels, archive, nextTopicId,
                   nextDocumentId, storeCalls, reinitializing, staleCached,
                   folderVars, beyondHandles>>

\* deleteStore has ended: the cached handle and the folder statistics go.
deleteTopicVectorStoreEnds(t) ==
    /\ t \in deletions
    /\ deletions' = deletions \ {t}
    /\ storeMetadata' = Remove(storeMetadata, t)
    /\ vectorStoreCache' = Remove(vectorStoreCache, t)
    /\ folderChunkStats' = Remove(folderChunkStats, t)
    /\ staleCached' = staleCached \ {t}
    /\ storeCalls' = Outdated(storeCalls, {t})
    /\ lastCall' = Call("deleteTopicVectorStore", t, "ok", <<>>)
    /\ UNCHANGED <<topicsIndex, topicDocuments, currentModel, availableModels,
                   archive, nextTopicId, nextDocumentId, reinitializing,
                   watchFoldersConfig, beyondHandles>>

\* reinitializeWithNewModel is called: the old factory is disposed of, the
\* cache is cleared, and documentPipeline.initialize is awaited.
reinitializeStarts ==
    /\ reinitializing = "idle"
    /\ reinitializing' = "pipeline"
    /\ vectorStoreCache' = <<>>
    /\ staleCached' = {}
    /\ storeCalls' = Outdated(storeCalls, TopicIds)
    /\ UNCHANGED <<topicsIndex, topicDocuments, storeMetadata, currentModel,
                   availableModels, archive, nextTopicId, nextDocumentId,
                   lastCall, deletions, folderVars, beyondHandles>>

\* The pipeline is ready: the index is saved.
reinitializePipelineReady ==
    /\ reinitializing = "pipeline"
    /\ reinitializing' = "saving"
    /\ UNCHANGED <<storeCalls, deletions, staleCached, folderVars, managerVars,
                   beyondHandles>>

\* The index is saved: the new factory is in place.
reinitializeEnds ==
    /\ reinitializing = "saving"
    /\ reinitializing' = "idle"
    /\ lastCall' = Call("reinitializeWithNewModel", NoTopic, "ok", <<>>)
    /\ UNCHANGED <<topicsIndex, topicDocuments, vectorStoreCache, storeMetadata,
                   currentModel, availableModels, archive, nextTopicId,
                   nextDocumentId, storeCalls, deletions, staleCached,
                   folderVars, beyondHandles>>

HandlesCreateTopic ==
    /\ nextTopicId <= MaxHandleTopics
    /\ createTopic([text |-> "Notes", imported |-> nextTopicId - 1],
                   <<CommonFile>>)
    /\ UNCHANGED beyondManager

HandlesNext ==
    \/ HandlesCreateTopic
    \/ \E g \in StoreCallers, t \in TopicIds : getVectorStoreStarts(g, t)
    \/ \E g \in StoreCallers : getVectorStoreChecked(g)
    \/ \E g \in StoreCallers, load \in LoadOutcomes : loadStoreSettles(g, load)
    \/ \E g \in StoreCallers : getVectorStoreContinues(g)
    \/ \E t \in TopicIds : deleteTopicVectorStoreStarts(t)
    \/ \E t \in TopicIds : deleteTopicVectorStoreEnds(t)
    \/ reinitializeStarts
    \/ reinitializePipelineReady
    \/ reinitializeEnds


\* documentPipeline.initialize or saveTopicsIndex throws: the error is
\* thrown on, and the field keeps the factory that was disposed of.
reinitializeFails ==
    /\ reinitializing \in {"pipeline", "saving"}
    /\ reinitializing' = "failed"
    /\ lastCall' = Call("reinitializeWithNewModel", NoTopic, "error", <<>>)
    /\ UNCHANGED <<topicsIndex, topicDocuments, vectorStoreCache, storeMetadata,
                   currentModel, availableModels, archive, nextTopicId,
                   nextDocumentId, storeCalls, deletions, staleCached,
                   folderVars, beyondHandles>>

\* reinitializeWithNewModel is called again after a failure.
reinitializeRetried ==
    /\ reinitializing = "failed"
    /\ reinitializing' = "pipeline"
    /\ vectorStoreCache' = <<>>
    /\ staleCached' = {}
    /\ storeCalls' = Outdated(storeCalls, TopicIds)
    /\ UNCHANGED <<topicsIndex, topicDocuments, storeMetadata, currentModel,
                   availableModels, archive, nextTopicId, nextDocumentId,
                   lastCall, deletions, folderVars, beyondHandles>>

FactoryNext ==
    \/ HandlesCreateTopic
    \/ \E g \in StoreCallers, t \in TopicIds : getVectorStoreStarts(g, t)
    \/ \E g \in StoreCallers : getVectorStoreChecked(g)
    \/ \E g \in StoreCallers, load \in LoadOutcomes : loadStoreSettles(g, load)
    \/ \E g \in StoreCallers : getVectorStoreContinues(g)
    \/ \E t \in TopicIds : deleteTopicVectorStoreStarts(t)
    \/ \E t \in TopicIds : deleteTopicVectorStoreEnds(t)
    \/ reinitializeStarts
    \/ reinitializePipelineReady
    \/ reinitializeEnds
    \/ reinitializeFails
    \/ reinitializeRetried

----------------------------------------------------------------------------
(***************************************************************************)
(* RestServer: the agent cache and the cleanup callback                    *)
(*                                                                         *)
(* The registration of the callback is not part of the sources at hand;    *)
(* here RestServer.clearAgentCache is registered before anything else      *)
(* happens.  staleAgents and staleBuilds record which agents wrap a store  *)
(* that was obtained before deleteTopic, deleteTopicVectorStore or         *)
(* reinitializeWithNewModel completed for their topic.                     *)
(***************************************************************************)

NoCallback == "none"

MaxAgentTopics == 1

AgentVarsInit ==
    /\ agentCacheCleanupCallback = NoCallback
    /\ staleAgents = {}
    /\ staleBuilds = {}

beyondAgents ==
    <<singletonVars, watcherVars, trackerVars, commonVars, handleVars,
      afterAgents>>

\* RestServer.clearAgentCache
clearAgentCache(cache, t) == Remove(cache, t)

\* notifyAgentCacheCleanup for each of the topics: nothing without a
\* registered callback.
RECURSIVE notifyAgentCacheCleanup(_, _)
notifyAgentCacheCleanup(cache, topics) ==
    IF agentCacheCleanupCallback = NoCallback \/ topics = {} THEN cache
    ELSE LET t == CHOOSE x \in topics : TRUE
         IN  notifyAgentCacheCleanup(clearAgentCache(cache, t), topics \ {t})

registerAgentCacheCleanupCallback ==
    /\ agentCacheCleanupCallback = NoCallback
    /\ agentCacheCleanupCallback' = "RestServer.clearAgentCache"
    /\ UNCHANGED <<staleAgents, staleBuilds, searchVars, folderVars,
                   managerVars, beyondAgents>>

Registered == agentCacheCleanupCallback # NoCallback

\* The stores of the topics have been deleted or replaced: the callback
\* runs for each of them; an agent that stays cached, or that a request
\* is building at this moment, wraps a store from before.
Invalidated(topics) ==
    /\ agentCache' = notifyAgentCacheCleanup(agentCache, topics)
    /\ staleAgents' =
           (staleAgents \cup topics) \cap DOMAIN agentCache'
    /\ staleBuilds' =
           staleBuilds \cup
               { r \in SearchRequests :
                   /\ searchRequests[r].pc = "agentInit"
                   /\ searchRequests[r].topicId \in topics }
    /\ UNCHANGED <<searchRequests, agentCacheCleanupCallback, beyondAgents>>

AgentsCreateTopic ==
    /\ Registered
    /\ nextTopicId <= MaxAgentTopics
    /\ createTopic([text |-> "Notes", imported |-> 0], <<CommonFile>>)
    /\ UNCHANGED <<searchVars, agentVars, beyondAgents>>

AgentsDeleteTopic ==
    /\ Registered
    /\ \E t \in DOMAIN topicsIndex : deleteTopic(t) /\ Invalidated({t})

AgentsDeleteTopicVectorStore ==
    /\ Registered
    /\ \E t \in DOMAIN topicsIndex :
           deleteTopicVectorStore(t) /\ Invalidated({t})

AgentsReinitialize ==
    /\ Registered
    /\ reinitializeWithNewModel
    /\ Invalidated(DOMAIN topicsIndex)

AgentsSearchBegin ==
    /\ Registered
    /\ \E r \in SearchRequests, t \in TopicIds : SearchBegin(r, t)
    /\ UNCHANGED <<agentVars, beyondAgents>>

AgentsSearchStats ==
    /\ \E r \in SearchRequests : SearchStats(r)
    /\ UNCHANGED <<agentVars, beyondAgents>>

AgentsSearchGotStore ==
    /\ \E r \in SearchRequests, load \in LoadOutcomes : SearchGotStore(r, load)
    /\ UNCHANGED <<agentVars, beyondAgents>>

\* The agent that enters the cache wraps the store the request got.
AgentsSearchAgentInitialized ==
    /\ \E r \in SearchRequests, ok \in BOOLEAN :
           /\ SearchAgentInitialized(r, ok)
           /\ staleBuilds' = staleBuilds \ {r}
           /\ staleAgents' =
                  IF ~ok THEN staleAgents
                  ELSE IF r \in staleBuilds
                  THEN staleAgents \cup {searchRequests[r].topicId}
                  ELSE staleAgents \ {searchRequests[r].topicId}
    /\ UNCHANGED <<agentCacheCleanupCallback, beyondAgents>>

AgentsSearchQueried ==
    /\ \E r \in SearchRequests, ok \in BOOLEAN : SearchQueried(r, ok)
    /\ UNCHANGED <<agentVars, beyondAgents>>

AgentsNext ==
    \/ registerAgentCacheCleanupCallback
    \/ AgentsCreateTopic
    \/ AgentsDeleteTopic
    \/ AgentsDeleteTopicVectorStore
    \/ AgentsReinitialize
    \/ AgentsSearchBegin
    \/ AgentsSearchStats
    \/ AgentsSearchGotStore
    \/ AgentsSearchAgentInitialized
    \/ AgentsSearchQueried

----------------------------------------------------------------------------
(***************************************************************************)
(* TopicManager: addDocuments from await to await                          *)
(*                                                                         *)
(* adding holds the call in progress or the call that ended last: its      *)
(* files, the index of the file inside the pipeline, the results pushed    *)
(* so far (by index of their file) and how often the call has written     *)
(* the topic index and the documents file of its topic.                    *)
(***************************************************************************)

IdleAdd ==
    [pc |-> "idle", topicId |-> NoTopic, files |-> <<>>, i |-> 0,
     results |-> <<>>, indexSaves |-> 0, documentSaves |-> 0,
     outcome |-> "none"]

IngestVarsInit == adding = IdleAdd

beyondIngest ==
    <<searchVars, singletonVars, watcherVars, trackerVars, commonVars,
      handleVars, agentVars, afterIngest>>

\* Lines 688-692: the loop is over; the count of the topic is set and
\* saveTopicsIndex writes the index.
AfterLoop(add) ==
    [add EXCEPT !.pc = "saveTopicsIndex", !.indexSaves = @ + 1]

AfterFileSavingEach(add) ==
    IF add.i < Len(add.files)
    THEN [add EXCEPT !.i = @ + 1, !.indexSaves = @ + 1]
    ELSE AfterLoop(add)

\* The next file enters the pipeline, or the loop is over.
AfterFile(add) ==
    IF add.i < Len(add.files) THEN [add EXCEPT !.i = @ + 1] ELSE AfterLoop(add)

DocumentCountOf(documents, t) ==
    IF t \in DOMAIN documents THEN Cardinality(DOMAIN documents[t]) ELSE 0

\* addDocuments(t, files) is called: it throws for an unknown topic; the
\* first file enters the pipeline; without files the loop is over at once.
addDocumentsStarts(t, files) ==
    /\ adding.pc \in {"idle", "done"}
    /\ nextDocumentId + Cardinality(Successes(files)) - 1 <= MaxDocumentIds
    /\ IF t \notin DOMAIN topicsIndex
       THEN /\ adding' = [IdleAdd EXCEPT !.pc = "done", !.topicId = t,
                                         !.files = files, !.outcome = "error"]
            /\ lastCall' = Call("addDocuments", t, "error", "Topic not found")
            /\ UNCHANGED topicsIndex
       ELSE IF files = <<>>
       THEN /\ adding' = AfterLoop([IdleAdd EXCEPT !.topicId = t])
            /\ topicsIndex' = [topicsIndex EXCEPT ![t].documentCount =
                                   DocumentCountOf(topicDocuments, t)]
            /\ UNCHANGED lastCall
       ELSE /\ adding' = [IdleAdd EXCEPT !.pc = "processDocument",
                                         !.topicId = t, !.files = files, !.i = 1]
            /\ UNCHANGED <<topicsIndex, lastCall>>
    /\ UNCHANGED <<topicDocuments, vectorStoreCache, storeMetadata, currentModel,
                   availableModels, archive, nextTopicId, nextDocumentId,
                   folderVars, beyondIngest>>

\* processDocument has ended for file i.  A failure, returned or thrown,
\* is logged; a success becomes a document, enters the folder tree and
\* pushes a result.  After the last file the count of the topic is set.
processDocumentSettles ==
    LET t == adding.topicId
        file == adding.files[adding.i]
        success == file.pipelineResult.success
        before == IF t \in DOMAIN topicDocuments THEN topicDocuments[t] ELSE <<>>
        added == AddLoop(t, <<file>>, 1, before, StatsOf(t), nextDocumentId,
                         watchFoldersConfig)
        documents == IF success THEN Extend(topicDocuments, t, added.documents)
                     ELSE topicDocuments
        pushed == [adding EXCEPT !.results =
                      IF success THEN Append(@, adding.i) ELSE @]
    IN  /\ adding.pc = "processDocument"
        /\ adding' = AfterFile(pushed)
        /\ topicDocuments' = documents
        /\ folderChunkStats' = IF success
                               THEN Extend(folderChunkStats, t, added.stats)
                               ELSE folderChunkStats
        /\ storeMetadata' = StoreWritten(t, success)
        /\ nextDocumentId' = added.nextId
        /\ topicsIndex' =
               IF adding.i < Len(adding.files) \/ t \notin DOMAIN topicsIndex
               THEN topicsIndex
               ELSE [topicsIndex EXCEPT ![t].documentCount =
                        DocumentCountOf(documents, t)]
        /\ UNCHANGED <<vectorStoreCache, currentModel, availableModels, archive,
                       nextTopicId, lastCall, watchFoldersConfig, beyondIngest>>

\* The index is written: saveTopicDocuments writes the documents of the
\* topic, if the topic has a document map.
saveTopicsIndexSettles ==
    /\ adding.pc = "saveTopicsIndex"
    /\ adding' = [adding EXCEPT
                     !.pc = "saveTopicDocuments",
                     !.documentSaves =
                         IF adding.topicId \in DOMAIN topicDocuments
                         THEN @ + 1 ELSE @]
    /\ UNCHANGED <<folderVars, managerVars, beyondIngest>>

\* The documents are written: the results are returned.
saveTopicDocumentsSettles ==
    /\ adding.pc = "saveTopicDocuments"
    /\ adding' = [adding EXCEPT !.pc = "done", !.outcome = "ok"]
    /\ lastCall' = Call("addDocuments", adding.topicId, "ok",
                        Len(adding.results))
    /\ UNCHANGED <<topicsIndex, topicDocuments, vectorStoreCache, storeMetadata,
                   currentModel, availableModels, archive, nextTopicId,
                   nextDocumentId, folderVars, beyondIngest>>

MaxIngestTopics == 1

IngestCreateTopic ==
    /\ nextTopicId <= MaxIngestTopics
    /\ adding.pc \in {"idle", "done"}
    /\ createTopic([text |-> "Notes", imported |-> 0], <<>>)
    /\ UNCHANGED beyondManager

\* The batches of this specification: every mix of failing files and of
\* files of one chunk.
IngestBatches ==
    { files \in Batches(0) :
        \A i \in 1..Len(files) : files[i].pipelineResult.chunksStored <= 1 }

IngestNext ==
    \/ IngestCreateTopic
    \/ \E t \in TopicIds, files \in IngestBatches : addDocumentsStarts(t, files)
    \/ processDocumentSettles
    \/ saveTopicsIndexSettles
    \/ saveTopicDocumentsSettles

\* addDocuments while the user pauses and resumes indexing.
PausedIngestNext ==
    \/ IngestNext
    \/ pause
    \/ resume

----------------------------------------------------------------------------
(***************************************************************************)
(* RestServer: handleRequest                                               *)
(*                                                                         *)
(* A request is a method, a route and the query parameters q and topic.    *)
(* handleRequest runs up to the first await of its handler in one step;    *)
(* for GET /search the steps after that are those of handleSearch above.   *)
(* responses[r] lists every writeHead/end pair made on the response of     *)
(* request r.  Only local topics exist here.                               *)
(***************************************************************************)

\* A query parameter that is not in the URL.
Absent == "undefined"

\* A query parameter given twice: url.parse(req.url, true) makes it an array.
Repeated == "array"

\* !value, for a parameter
Falsy(value) == value \in {Absent, ""}

QueryValues == {Absent, "", "test"}

TopicValues == {Absent, "", "notes", "NOTES (imported)", "other", Repeated}

\* The requests tried: GET /search with every q and topic, and one request
\* for each other branch of the router; "/topics/%" cannot be decoded.
HttpRequests ==
    [method : {"GET"}, route : {"/search"}, q : QueryValues, topic : TopicValues]
        \cup [method : {"GET"},
              route : {"/health", "/topics", "/topics/notes", "/topics/other",
                       "/topics/%", "/status", "/other"},
              q : {Absent}, topic : {Absent}]
        \cup [method : {"POST", "OPTIONS"}, route : {"/search"},
              q : {"test"}, topic : {Absent}]

NoRequest == [method |-> "none", route |-> "", q |-> Absent, topic |-> Absent]

RestVarsInit ==
    /\ topicManagerSet = FALSE
    /\ httpRequests = [r \in SearchRequests |-> [pc |-> "idle", request |-> NoRequest]]
    /\ responses = [r \in SearchRequests |-> <<>>]

beyondRest ==
    <<singletonVars, watcherVars, trackerVars, commonVars, handleVars,
      agentVars, ingestVars, afterRest>>

\* sendJson, and the 204 of an OPTIONS request
Sent(status) == [status |-> status, body |-> IF status = 204 THEN "none" ELSE "json",
                 error |-> ""]

\* sendError
sendError(code, message) == [status |-> code, body |-> "error", error |-> message]

\* The topic parameter as a name.
AsName(text) ==
    IF text = "NOTES (imported)" THEN [text |-> "NOTES", imported |-> 1]
    ELSE [text |-> text, imported |-> 0]

\* topics.find(t => t.name.toLowerCase() === topicName.toLowerCase()): the
\* indices of the matching topics.
Found(topics, topicName) ==
    { i \in 1..Len(topics) :
        ToLowerCase(topics[i].name) = ToLowerCase(AsName(topicName)) }

NoTarget(response) == [sent |-> TRUE, response |-> response, topicId |-> NoTopic]

handleSearchManagerFirst(q, topicName) ==
    LET topics == getAllTopics
        found == Found(topics, topicName)
    IN  IF ~topicManagerSet
        THEN NoTarget(sendError(503, "Topic manager not initialized"))
        ELSE IF Falsy(q)
        THEN NoTarget(sendError(400, "Missing required parameter: q"))
        ELSE IF topicName = Repeated /\ topics # <<>>
        THEN NoTarget(sendError(500, "topicName.toLowerCase is not a function"))
        ELSE IF ~Falsy(topicName) /\ found = {}
        THEN NoTarget(sendError(404, "Topic not found"))
        ELSE IF Falsy(topicName) /\ topics = <<>>
        THEN NoTarget(sendError(404, "No topics available"))
        ELSE [sent |-> FALSE, response |-> Sent(200),
              topicId |-> IF Falsy(topicName) THEN topics[1].id
                          ELSE topics[Min(found)].id]

\* handleSearch up to its first await: the response sent, or the topic
\* to search.  The callback of topics.find throws on an array, and the
\* catch of handleRequest answers 500.
handleSearch(q, topicName) ==
    LET topics == getAllTopics
        found == Found(topics, topicName)
    IN  IF Falsy(q)
        THEN NoTarget(sendError(400, "Missing required parameter: q"))
        ELSE IF ~topicManagerSet
        THEN NoTarget(sendError(503, "Topic manager not initialized"))
        ELSE IF topicName = Repeated /\ topics # <<>>
        THEN NoTarget(sendError(500, "topicName.toLowerCase is not a function"))
        ELSE IF ~Falsy(topicName) /\ found = {}
        THEN NoTarget(sendError(404, "Topic not found"))
        ELSE IF Falsy(topicName) /\ topics = <<>>
        THEN NoTarget(sendError(404, "No topics available"))
        ELSE [sent |-> FALSE, response |-> Sent(200),
              topicId |-> IF Falsy(topicName) THEN topics[1].id
                          ELSE topics[Min(found)].id]

\* handleGetTopic; the failures of getTopicStats are ignored.
handleGetTopic(topicName) ==
    IF ~topicManagerSet THEN sendError(503, "Topic manager not initialized")
    ELSE IF Found(getAllTopics, topicName) = {}
    THEN sendError(404, "Topic not found")
    ELSE Sent(200)

\* handleListTopics; the failures of getTopicStats are ignored.
handleListTopics ==
    IF ~topicManagerSet THEN sendError(503, "Topic manager not initialized")
    ELSE Sent(200)

\* The router without its try and catch: what decodeURIComponent throws
\* leaves the response unwritten.
RouteWithoutCatch(request) ==
    IF request.method = "OPTIONS" THEN <<Sent(204)>>
    ELSE IF request.route = "/health" THEN <<Sent(200)>>
    ELSE IF request.route = "/topics" /\ request.method = "GET"
    THEN <<handleListTopics>>
    ELSE IF request.route = "/topics/%" /\ request.method = "GET"
    THEN <<>>
    ELSE IF request.route = "/topics/notes" /\ request.method = "GET"
    THEN <<handleGetTopic("notes")>>
    ELSE IF request.route = "/topics/other" /\ request.method = "GET"
    THEN <<handleGetTopic("other")>>
    ELSE IF request.route = "/status" /\ request.method = "GET" THEN <<Sent(200)>>
    ELSE <<sendError(404, "Not found")>>

\* The router for every request but GET /search: what is written to the
\* response.  decodeURIComponent throws inside the try, and the catch
\* answers 500.
Route(request) ==
    IF request.method = "OPTIONS" THEN <<Sent(204)>>
    ELSE IF request.route = "/health" THEN <<Sent(200)>>
    ELSE IF request.route = "/topics" /\ request.method = "GET"
    THEN <<handleListTopics>>
    ELSE IF request.route = "/topics/%" /\ request.method = "GET"
    THEN <<sendError(500, "URI malformed")>>
    ELSE IF request.route = "/topics/notes" /\ request.method = "GET"
    THEN <<handleGetTopic("notes")>>
    ELSE IF request.route = "/topics/other" /\ request.method = "GET"
    THEN <<handleGetTopic("other")>>
    ELSE IF request.route = "/status" /\ request.method = "GET" THEN <<Sent(200)>>
    ELSE <<sendError(404, "Not found")>>

\* start(): the topic manager is set before the server listens.
restStart ==
    /\ ~topicManagerSet
    /\ topicManagerSet' = TRUE
    /\ UNCHANGED <<httpRequests, responses, searchVars, folderVars, managerVars,
                   beyondRest>>

\* handleRequest(req, res) is called and runs up to its first await.
handleRequest(r, request) ==
    LET search == handleSearch(request.q, request.topic)
        isSearch == request.method = "GET" /\ request.route = "/search"
    IN  /\ httpRequests[r].pc = "idle"
        /\ searchRequests[r].pc = "idle"
        /\ IF isSearch /\ ~search.sent
           THEN /\ httpRequests' =
                       [httpRequests EXCEPT ![r] =
                           [pc |-> "handling", request |-> request]]
                /\ SearchBegin(r, search.topicId)
                /\ UNCHANGED responses
           ELSE /\ httpRequests' =
                       [httpRequests EXCEPT ![r] =
                           [pc |-> "finished", request |-> request]]
                /\ responses' =
                       [responses EXCEPT ![r] =
                           @ \o (IF isSearch THEN <<search.response>>
                                 ELSE Route(request))]
                /\ UNCHANGED <<searchVars, folderVars, managerVars>>
        /\ UNCHANGED <<topicManagerSet, beyondRest>>

\* The message of the 500 that handleSearch sends.
SearchFailure(req) ==
    IF req.error.kind = "ModelMismatch" THEN "Failed to switch models"
    ELSE IF req.error.kind = "none" THEN "Vector store not available for topic"
    ELSE "Search failed"

\* A step of handleSearch for request r: when it sends, the response is
\* written and handleRequest is over.
Answered(r) ==
    /\ IF searchRequests'[r].pc = "done" /\ searchRequests[r].pc # "done"
       THEN /\ responses' =
                   [responses EXCEPT ![r] =
                       Append(@, IF searchRequests'[r].status = 200 THEN Sent(200)
                                 ELSE sendError(searchRequests'[r].status,
                                                SearchFailure(searchRequests'[r])))]
            /\ httpRequests' = [httpRequests EXCEPT ![r].pc = "finished"]
       ELSE UNCHANGED <<responses, httpRequests>>
    /\ UNCHANGED <<topicManagerSet, beyondRest>>

MaxRestTopics == 2

RestCreateTopic ==
    /\ NoRequestInFlight
    /\ nextTopicId <= MaxRestTopics
    /\ \E files \in StoreFiles :
           createTopic([text |-> "Notes", imported |-> nextTopicId - 1], files)
    /\ UNCHANGED beyondManager

RestSetModel ==
    /\ \A r \in SearchRequests : searchRequests[r].pc = "idle"
    /\ \E m \in Models : EmbeddingInitialize(m)
    /\ UNCHANGED beyondManager

RestNext ==
    \/ restStart
    \/ RestCreateTopic
    \/ RestSetModel
    \/ \E r \in SearchRequests, request \in HttpRequests : handleRequest(r, request)
    \/ \E r \in SearchRequests : SearchStats(r) /\ Answered(r)
    \/ \E r \in SearchRequests, ok \in BOOLEAN :
           SearchSwitched(r, ok) /\ Answered(r)
    \/ \E r \in SearchRequests, load \in LoadOutcomes :
           SearchGotStore(r, load) /\ Answered(r)
    \/ \E r \in SearchRequests, ok \in BOOLEAN :
           SearchAgentInitialized(r, ok) /\ Answered(r)
    \/ \E r \in SearchRequests, ok \in BOOLEAN :
           SearchQueried(r, ok) /\ Answered(r)

----------------------------------------------------------------------------
(***************************************************************************)
(* ProgressTracker: the callers of waitIfPaused                            *)
(*                                                                         *)
(* Several callers wait, each under the topic it ingests for.  Here        *)
(* pauseResolvers[t] is the array of resolve functions itself, each named  *)
(* by the caller it releases.  A caller whose promise is resolved          *)
(* continues in a step of its own.                                         *)
(***************************************************************************)

WaitCallers == {1, 2, 3}

WaitTopics == {1, 2}

IdleWaiter == [pc |-> "idle", topicId |-> NoTopic]

WaitVarsInit == waiters = [c \in WaitCallers |-> IdleWaiter]

beyondWait ==
    <<folderVars, managerVars, searchVars, singletonVars, watcherVars,
      activeOperations, expiryTimers, commonVars, handleVars, agentVars,
      ingestVars, restVars, afterWait>>

\* pauseResolvers.get(topicId).push(resolve), on a new array when the topic
\* has none.
PushResolve(resolvers, t, c) ==
    Extend(resolvers, t,
           IF t \in DOMAIN resolvers THEN Append(resolvers[t], c) ELSE <<c>>)

\* Every resolve function in the arrays of every topic but the first.
ResolversAfterFirst(resolvers) ==
    IF DOMAIN resolvers = {} THEN {}
    ELSE UNION { Range(resolvers[t]) : t \in DOMAIN resolvers \ {Min(DOMAIN resolvers)} }

\* Every resolve function in the arrays of every topic.
AllResolvers(resolvers) ==
    UNION { Range(resolvers[t]) : t \in DOMAIN resolvers }

\* await waitIfPaused(topicId): the promise is resolved at once, or the
\* caller is suspended behind the others of its topic.
waitIfPausedCalled(c, t) ==
    /\ waiters[c].pc = "idle"
    /\ IF waitIfPaused(isPaused)
       THEN /\ pauseResolvers' = PushResolve(pauseResolvers, t, c)
            /\ waiters' = [waiters EXCEPT ![c] = [pc |-> "suspended", topicId |-> t]]
       ELSE /\ waiters' = [waiters EXCEPT ![c] = [pc |-> "returned", topicId |-> t]]
            /\ UNCHANGED pauseResolvers
    /\ UNCHANGED <<isPaused, beyondWait>>

\* The caller goes on after its await.
waiterContinues(c) ==
    /\ waiters[c].pc \in {"returned", "released"}
    /\ waiters' = [waiters EXCEPT ![c] = IdleWaiter]
    /\ UNCHANGED <<isPaused, pauseResolvers, beyondWait>>

\* What pause() sets.
Paused ==
    /\ isPaused' = TRUE
    /\ UNCHANGED <<pauseResolvers, waiters>>

\* pause()
pauseCalled ==
    /\ Paused
    /\ UNCHANGED beyondWait

\* resume(): every resolve function of every array is called and the map
\* is cleared; nothing when indexing is not paused.
Resumed ==
    /\ isPaused' = FALSE
    /\ IF isPaused
       THEN /\ waiters' =
                   [c \in WaitCallers |->
                       IF c \in AllResolvers(pauseResolvers)
                       THEN [waiters[c] EXCEPT !.pc = "released"]
                       ELSE waiters[c]]
            /\ pauseResolvers' = <<>>
       ELSE UNCHANGED <<waiters, pauseResolvers>>

resumeCalled ==
    /\ Resumed
    /\ UNCHANGED beyondWait

togglePauseCalled == IF isPaused THEN resumeCalled ELSE pauseCalled

WaitNext ==
    \/ \E c \in WaitCallers, t \in WaitTopics : waitIfPausedCalled(c, t)
    \/ \E c \in WaitCallers : waiterContinues(c)
    \/ pauseCalled
    \/ resumeCalled
    \/ togglePauseCalled

\* The same calls with the events they emit: trackerCall holds the last
\* call of pause(), resume() or togglePause() and what it emitted.
NoTrackerCall == [op |-> "none", emitted |-> <<>>]

PauseVarsInit == trackerCall = NoTrackerCall

beyondPause ==
    <<folderVars, managerVars, searchVars, singletonVars, watcherVars,
      activeOperations, expiryTimers, commonVars, handleVars, agentVars,
      ingestVars, restVars, overlapVars, enableVars, afterPause>>

\* A variant of pause() that emits whether indexing was paused or not.
EmittedByPauseAlways(paused) == <<"pause", "progress">>

\* The events of pause(): none when indexing is paused already.
EmittedByPause(paused) == IF paused THEN <<>> ELSE <<"pause", "progress">>

\* The events of resume(): none when indexing is not paused.
EmittedByResume(paused) == IF paused THEN <<"resume", "progress">> ELSE <<>>

pauseEmits(op) ==
    /\ Paused
    /\ trackerCall' = [op |-> op, emitted |-> EmittedByPause(isPaused)]
    /\ UNCHANGED beyondPause

resumeEmits(op) ==
    /\ Resumed
    /\ trackerCall' = [op |-> op, emitted |-> EmittedByResume(isPaused)]
    /\ UNCHANGED beyondPause

togglePauseEmits ==
    IF isPaused THEN resumeEmits("togglePause") ELSE pauseEmits("togglePause")

PauseNext ==
    \/ \E c \in WaitCallers, t \in WaitTopics : waitIfPausedCalled(c, t)
    \/ \E c \in WaitCallers : waiterContinues(c)
    \/ pauseEmits("pause")
    \/ resumeEmits("resume")
    \/ togglePauseEmits

----------------------------------------------------------------------------
(***************************************************************************)
(* FileWatcherService: processQueuedChanges from await to await            *)
(*                                                                         *)
(* Every firing of the debounce timer is a call of processQueuedChanges    *)
(* of its own; runs[s] holds where the call in slot s stands and its       *)
(* locals.  Events arrive and timers fire while calls are in flight.       *)
(* Indexing is not paused here, so waitIfPaused returns at once.           *)
(***************************************************************************)

RunSlots == {1, 2}

IdleRun == [pc |-> "idle", files |-> <<>>, index |-> 0, processedCount |-> 0]

OverlapVarsInit == runs = [s \in RunSlots |-> IdleRun]

\* What the steps of a call leave alone.
beyondRuns ==
    <<searchVars, singletonVars, commonVars, handleVars, agentVars, ingestVars,
      restVars, waitVars, afterOverlap>>

\* The debounce timer h fires: processQueuedChanges takes the pending set
\* and goes up to its first fs.access.
processQueuedChanges(h, s) ==
    /\ h \in DOMAIN timers
    /\ timers[h] = 0
    /\ runs[s].pc = "idle"
    /\ \A x \in RunSlots : x < s => runs[x].pc # "idle"
    /\ timers' = Remove(timers, h)
    /\ IF pendingChanges = <<>> \/ defaultTopicId = NoTopic
       THEN /\ lastStep' = Step("processQueuedChanges", "skipped", <<>>)
            /\ UNCHANGED <<pendingChanges, updateTimer, runs>>
       ELSE /\ runs' = [runs EXCEPT ![s] =
                           [IdleRun EXCEPT !.pc = "filtering",
                                           !.files = pendingChanges]]
            /\ pendingChanges' = <<>>
            /\ updateTimer' = NoTimer
            /\ lastStep' = Step("processQueuedChanges", "batch", pendingChanges)
    /\ UNCHANGED <<sinceLastEvent, defaultTopicId, watchers, seedTimers, batch,
                   trackerVars, folderVars, managerVars, beyondRuns>>

\* fs.access has answered for every file: the files that exist stay, and
\* tracking starts unless none is left.
runFiltered(s, existing) ==
    LET files == SelectSeq(runs[s].files, LAMBDA p : p \in existing)
    IN  /\ runs[s].pc = "filtering"
        /\ existing \subseteq Range(runs[s].files)
        /\ IF files = <<>>
           THEN /\ runs' = [runs EXCEPT ![s] = IdleRun]
                /\ UNCHANGED activeOperations
           ELSE /\ runs' = [runs EXCEPT ![s] =
                               [@ EXCEPT !.pc = "ensure", !.files = files]]
                /\ activeOperations' =
                       StartTracking(activeOperations, defaultTopicId, Len(files))
        /\ lastStep' = Step("filter", "ok", files)
        /\ UNCHANGED <<watcherState, isPaused, pauseResolvers, expiryTimers,
                       folderVars, managerVars, beyondRuns>>

\* The removal loop at file i: the progress is reported and
\* removeDocumentByFilePath starts; after the last file the add loop starts.
RunAtRemoval(run, i) ==
    IF i > Len(run.files)
    THEN [run EXCEPT !.pc = "adding", !.index = 1, !.processedCount = 0]
    ELSE [run EXCEPT !.pc = "removing", !.index = i]

\* The add loop at file i: addDocuments starts; after the last file the
\* call completes its tracking.
RunAtAdd(run, i) ==
    IF i > Len(run.files)
    THEN [run EXCEPT !.pc = "complete"]
    ELSE [run EXCEPT !.pc = "adding", !.index = i]

\* The call in slot s goes on to `next`.
RunContinues(s, next) ==
    LET t == defaultTopicId
        complete == next.pc = "complete"
    IN  /\ ~waitIfPaused(isPaused)
        /\ complete /\ t \in DOMAIN activeOperations
               => ArmedExpiries < MaxExpiryTimers
        /\ runs' = [runs EXCEPT ![s] = IF complete THEN IdleRun ELSE next]
        /\ activeOperations' =
               IF next.pc = "removing"
               THEN UpdateProgress(activeOperations, t, "removing",
                                   next.processedCount)
               ELSE IF complete
               THEN CompleteTracking(activeOperations, t)
               ELSE activeOperations
        /\ expiryTimers' =
               IF complete
               THEN ArmExpiry(expiryTimers, activeOperations, t)
               ELSE expiryTimers

\* ensureInitialized() has returned or thrown; a throw cancels the tracking.
runEnsured(s, ok) ==
    /\ runs[s].pc = "ensure"
    /\ IF ok
       THEN RunContinues(s, RunAtRemoval(runs[s], 1))
       ELSE /\ runs' = [runs EXCEPT ![s] = IdleRun]
            /\ activeOperations' =
                   IF defaultTopicId # NoTopic
                   THEN CancelTracking(activeOperations, defaultTopicId)
                   ELSE activeOperations
            /\ UNCHANGED expiryTimers
    /\ lastStep' = Step("ensureInitialized", IF ok THEN "ok" ELSE "error", <<>>)
    /\ UNCHANGED <<watcherState, isPaused, pauseResolvers, folderVars,
                   managerVars, beyondRuns>>

\* removeDocumentByFilePath has ended for the file of the removal loop.
runRemoved(s, load) ==
    /\ runs[s].pc = "removing"
    /\ removeDocumentByFilePath(defaultTopicId, runs[s].files[runs[s].index], load)
    /\ RunContinues(s, RunAtRemoval(runs[s], runs[s].index + 1))
    /\ lastStep' = Step("removed", lastCall'.outcome, runs[s].files[runs[s].index])
    /\ UNCHANGED <<watcherState, isPaused, pauseResolvers, beyondRuns>>

\* addDocuments has ended for the file of the add loop.
runAdded(s, result) ==
    /\ runs[s].pc = "adding"
    /\ addDocuments(defaultTopicId,
                    << [filePath |-> runs[s].files[runs[s].index],
                        pipelineResult |-> result] >>)
    /\ RunContinues(s, RunAtAdd([runs[s] EXCEPT !.processedCount = @ + 1],
                                runs[s].index + 1))
    /\ lastStep' = Step("added", lastCall'.outcome, runs[s].files[runs[s].index])
    /\ UNCHANGED <<watcherState, isPaused, pauseResolvers, beyondRuns>>

\* One file, changed again and again.
OverlapPaths == { <<"w", "a.md">> }

OverlapInitialize == WatcherInitialize(TRUE, TRUE)

OverlapSeed == SeedFires(TRUE, <<>>)

OverlapEvent == \E p \in OverlapPaths : handleFileChange(p)

OverlapTimerFires ==
    \E h \in TimerHandles, s \in RunSlots : processQueuedChanges(h, s)

OverlapFilter ==
    \E s \in RunSlots, existing \in SUBSET OverlapPaths : runFiltered(s, existing)

OverlapEnsure == \E s \in RunSlots, ok \in BOOLEAN : runEnsured(s, ok)

OverlapRemove == \E s \in RunSlots : runRemoved(s, "store")

OverlapAdd == \E s \in RunSlots, result \in BatchResults : runAdded(s, result)

OverlapExpire == \E t \in DOMAIN expiryTimers : ProgressExpires(t)

OverlapNext ==
    \/ OverlapInitialize
    \/ OverlapSeed
    \/ OverlapEvent
    \/ Tick
    \/ OverlapTimerFires
    \/ OverlapFilter
    \/ OverlapEnsure
    \/ OverlapRemove
    \/ OverlapAdd
    \/ OverlapExpire

----------------------------------------------------------------------------
(***************************************************************************)
(* FileWatcherService: enabling and disabling                              *)
(*                                                                         *)
(* The setting localrag.watchOnChanges is false by default.  A change of   *)
(* the setting calls updateConfiguration, which runs up to the end of      *)
(* dispose() in one step and then awaits initialize().  initialize() and   *)
(* the callback of its timer read the setting again.                        *)
(***************************************************************************)

EnableVarsInit == watchOnChangesConfig = FALSE

\* The user switches the setting: updateConfiguration finds it changed,
\* takes it over and disposes of the watcher.
updateConfiguration ==
    /\ watchOnChangesConfig' = ~watchOnChangesConfig
    /\ Disposed
    /\ UNCHANGED <<sinceLastEvent, seedTimers, batch, trackerVars, folderVars,
                   managerVars, searchVars, singletonVars, commonVars,
                   handleVars, agentVars, ingestVars, restVars, waitVars,
                   overlapVars, afterEnable>>

\* initialize(), at activation or awaited by updateConfiguration
EnableInitialize == WatcherInitialize(TRUE, watchOnChangesConfig)

EnableSeedFiles == { <<>>, << <<"w", "a.md">> >> }

\* The timer of initialize fires.
EnableSeed ==
    /\ batch.pc = "idle"
    /\ \E found \in EnableSeedFiles : SeedFires(watchOnChangesConfig, found)

EnableNext ==
    \/ updateConfiguration
    \/ EnableInitialize
    \/ EnableSeed
    \/ BatchEnsure
    \/ BatchRemove
    \/ BatchAdd
    \/ BatchExpire

----------------------------------------------------------------------------
(***************************************************************************)
(* FileWatcherService: normalizeWatchFolders                               *)
(*                                                                         *)
(* A path is the sequence of its characters, so that startsWith, trim and  *)
(* path.resolve are what they are on strings.                              *)
(***************************************************************************)

\* String.prototype.startsWith
StartsWith(text, prefix) == IsPrefix(prefix, text)

\* String.prototype.trim
RECURSIVE Trim(_)
Trim(text) ==
    IF text = <<>> THEN text
    ELSE IF Head(text) = " " THEN Trim(Tail(text))
    ELSE IF text[Len(text)] = " " THEN Trim(SubSeq(text, 1, Len(text) - 1))
    ELSE text

\* path.isAbsolute
IsAbsolute(text) == text # <<>> /\ Head(text) = "/"

\* The segments of a path: what stands between its separators.
RECURSIVE SegmentsOf(_)
SegmentsOf(text) ==
    IF text = <<>> THEN <<>>
    ELSE LET stops == { i \in 1..Len(text) : text[i] = "/" }
             stop == IF stops = {} THEN Len(text) + 1 ELSE Min(stops)
             first == SubSeq(text, 1, stop - 1)
             rest == SegmentsOf(SubSeq(text, stop + 1, Len(text)))
         IN  IF first = <<>> THEN rest ELSE <<first>> \o rest

\* "." stays where it is and ".." goes one directory up, not above the root.
RECURSIVE Walk(_, _)
Walk(segments, done) ==
    IF segments = <<>> THEN done
    ELSE IF Head(segments) = <<".">> THEN Walk(Tail(segments), done)
    ELSE IF Head(segments) = <<".", ".">>
    THEN Walk(Tail(segments),
              IF done = <<>> THEN done ELSE SubSeq(done, 1, Len(done) - 1))
    ELSE Walk(Tail(segments), Append(done, Head(segments)))

RECURSIVE PathOf(_)
PathOf(segments) ==
    IF segments = <<>> THEN <<>>
    ELSE <<"/">> \o Head(segments) \o PathOf(Tail(segments))

\* path.resolve(root, folder), for an absolute root and a relative folder
PathResolve(root, folder) ==
    LET segments == Walk(SegmentsOf(root) \o SegmentsOf(folder), <<>>)
    IN  IF segments = <<>> THEN <<"/">> ELSE PathOf(segments)

\* workspaceFolders.some(wsFolder => folder.startsWith(wsFolder.uri.fsPath))
IsInWorkspace(workspaceFolders, folder) ==
    \E i \in 1..Len(workspaceFolders) : StartsWith(folder, workspaceFolders[i])

\* resolveFolderPath: "" for a folder that is refused.
resolveFolderPath(workspaceFolders, folder) ==
    IF workspaceFolders = <<>> THEN <<>>
    ELSE IF IsAbsolute(folder)
    THEN IF IsInWorkspace(workspaceFolders, folder) THEN folder ELSE <<>>
    ELSE LET resolved == PathResolve(workspaceFolders[1], folder)
         IN  IF IsInWorkspace(workspaceFolders, resolved) THEN resolved ELSE <<>>

\* Array.from(new Set(list)): the first occurrences, in order.
RECURSIVE Unique(_)
Unique(list) ==
    IF list = <<>> THEN list
    ELSE LET front == Unique(SubSeq(list, 1, Len(list) - 1))
             last == list[Len(list)]
         IN  IF last \in Range(front) THEN front ELSE Append(front, last)

MapSeq(list, Op(_)) == [i \in 1..Len(list) |-> Op(list[i])]

normalizeWatchFolders(workspaceFolders, configuredFolders, legacyFolder) ==
    LET rawFolders == IF Trim(legacyFolder) # <<>>
                      THEN Append(configuredFolders, legacyFolder)
                      ELSE configuredFolders
        trimmed == SelectSeq(MapSeq(rawFolders, Trim), LAMBDA f : f # <<>>)
        resolved == SelectSeq(
                        MapSeq(trimmed,
                               LAMBDA f : resolveFolderPath(workspaceFolders, f)),
                        LAMBDA f : f # <<>>)
    IN  Unique(resolved)

\* The workspace roots /ws and /o, and the settings tried.
WorkspaceRoot == <<"/", "w", "s">>

OtherRoot == <<"/", "o">>

WorkspaceFoldersTried == { <<>>, <<WorkspaceRoot>>, <<WorkspaceRoot, OtherRoot>> }

FolderSettings ==
    { <<>>,                                        \* ""
      <<" ">>,                                     \* " "
      <<"/", "w", "s">>,                           \* "/ws"
      <<"/", "w", "s", "/", "a">>,                 \* "/ws/a"
      <<"/", "w", "s", "2">>,                      \* "/ws2", next to /ws
      <<"/", "e">>,                                \* "/e", outside
      <<"a">>,                                     \* "a"
      <<" ", "a", " ">>,                           \* " a "
      <<".", ".", "/", "e">>,                      \* "../e"
      <<".", ".", "/", "w", "s", "2">> }           \* "../ws2"

MaxConfiguredFolders == 2

ConfiguredFoldersTried ==
    UNION { [1..n -> FolderSettings] : n \in 0..MaxConfiguredFolders }

NoNormalizeCall ==
    [workspaceFolders |-> <<>>, configuredFolders |-> <<>>,
     legacyFolder |-> <<>>, result |-> <<>>]

NormalizeVarsInit == normalizeCall = NoNormalizeCall

beyondNormalize ==
    <<folderVars, managerVars, searchVars, singletonVars, watcherVars,
      trackerVars, commonVars, handleVars, agentVars, ingestVars, restVars,
      waitVars, overlapVars, enableVars, pauseVars, afterNormalize>>

normalizeWatchFoldersCalled(workspaceFolders, configuredFolders, legacyFolder) ==
    /\ normalizeCall' =
           [workspaceFolders |-> workspaceFolders,
            configuredFolders |-> configuredFolders,
            legacyFolder |-> legacyFolder,
            result |-> normalizeWatchFolders(workspaceFolders, configuredFolders,
                                             legacyFolder)]
    /\ UNCHANGED beyondNormalize

\* One call is followed.
NormalizeNext ==
    /\ normalizeCall = NoNormalizeCall
    /\ \E workspaceFolders \in WorkspaceFoldersTried,
          configuredFolders \in ConfiguredFoldersTried,
          legacyFolder \in FolderSettings :
           normalizeWatchFoldersCalled(workspaceFolders, configuredFolders,
                                       legacyFolder)

----------------------------------------------------------------------------
(***************************************************************************)
(* TopicManager: reinitializeWithNewModel and the cleanup callback         *)
(*                                                                         *)
(* cleanupCalls lists the calls that the last reinitializeWithNewModel     *)
(* made of the registered callback, each with its topic and whether the    *)
(* callback threw.  Local and common topics exist; no call overlaps with   *)
(* another.                                                                *)
(***************************************************************************)

ReinitVarsInit ==
    /\ cleanupCalls = <<>>
    /\ indexModelName = "m1"

beyondReinit ==
    <<searchVars, singletonVars, watcherVars, trackerVars, commonVars,
      handleVars, agentVars, ingestVars, restVars, waitVars, overlapVars,
      enableVars, pauseVars, normalizeVars, afterReinit>>

\* Object.keys(this.topicsIndex.topics), in insertion order
RECURSIVE KeysInOrder(_)
KeysInOrder(topics) ==
    IF DOMAIN topics = {} THEN <<>>
    ELSE <<Min(DOMAIN topics)>> \o KeysInOrder(Remove(topics, Min(DOMAIN topics)))

\* The loop over topicIds: notifyAgentCacheCleanup calls the callback if one
\* is registered, and catches what it throws.
NotifyEach(topicIds, throws) ==
    IF agentCacheCleanupCallback = NoCallback THEN <<>>
    ELSE [i \in 1..Len(topicIds) |-> [topicId |-> topicIds[i], threw |-> throws]]

\* reinitializeWithNewModel, the callback throwing or not
reinitializeNotifies(throws) ==
    /\ reinitializeWithNewModel
    /\ cleanupCalls' = NotifyEach(KeysInOrder(topicsIndex), throws)
    /\ indexModelName' = currentModel
    /\ UNCHANGED beyondReinit

ReinitEmbedding ==
    /\ \E m \in Models : EmbeddingInitialize(m)
    /\ UNCHANGED beyondManager

ReinitGetVectorStore ==
    /\ \E t \in TopicIds : getVectorStore(t, "store")
    /\ UNCHANGED beyondManager

ReinitNext ==
    \/ registerAgentCacheCleanupCallback
    \/ ReadOnlyCreateTopic
    \/ ReadOnlyLoad
    \/ ReinitEmbedding
    \/ ReinitGetVectorStore
    \/ \E throws \in BOOLEAN : reinitializeNotifies(throws)

----------------------------------------------------------------------------
(***************************************************************************)
(* RestServer: GET /status                                                 *)
(*                                                                         *)
(* handleStatus has no await: it reads the tracker and answers in one      *)
(* step, between the steps of a seed scan that is paused and resumed.      *)
(* The fields watching and watchFolders of the response are read from the  *)
(* watcher and are not followed here.                                      *)
(***************************************************************************)

NoStatusResponse ==
    [status |-> "none", activeOperations |-> <<>>, embeddingModel |-> NoModel,
     totalTopics |-> 0]

StatusVarsInit == statusResponse = NoStatusResponse

beyondStatus ==
    <<folderVars, managerVars, searchVars, singletonVars, watcherVars,
      trackerVars, commonVars, handleVars, agentVars, ingestVars, restVars,
      waitVars, overlapVars, enableVars, pauseVars, normalizeVars, reinitVars,
      afterStatus>>

\* getAllProgress: Array.from(this.activeOperations.values()), each record
\* with its topic.
RECURSIVE getAllProgress(_)
getAllProgress(operations) ==
    IF DOMAIN operations = {} THEN <<>>
    ELSE LET t == Min(DOMAIN operations)
         IN  << [topicId |-> t, progress |-> operations[t]] >>
                 \o getAllProgress(Remove(operations, t))

\* A variant that looks at the operations before it looks at the flag.
StatusOfOperationsFirst(paused, operations) ==
    IF operations # <<>> THEN "indexing"
    ELSE IF paused THEN "paused"
    ELSE "idle"

\* The status field of the response.
StatusOf(paused, operations) ==
    IF paused THEN "paused"
    ELSE IF operations # <<>> THEN "indexing"
    ELSE "idle"

handleStatus ==
    /\ statusResponse' =
           [status |-> StatusOf(isPaused, getAllProgress(activeOperations)),
            activeOperations |-> getAllProgress(activeOperations),
            embeddingModel |-> currentModel,
            totalTopics |-> IF topicManagerSet THEN Len(getAllTopics) ELSE 0]
    /\ UNCHANGED beyondStatus

StatusNext ==
    \/ BatchInitialize
    \/ BatchSeed
    \/ BatchEnsure
    \/ BatchRemove
    \/ BatchOnProgress
    \/ BatchAdd
    \/ pause
    \/ resume
    \/ BatchExpire
    \/ handleStatus

----------------------------------------------------------------------------
(***************************************************************************)
(* TopicManager: ensureDefaultTopic                                        *)
(*                                                                         *)
(* A caller awaits ensureInitialized and goes on in a step of its own:     *)
(* the lookup and createTopic up to the entry in the index have no await   *)
(* between them.  The user creates topics of other names in between.       *)
(***************************************************************************)

DefaultCallers == {1, 2, 3}

IdleDefaultCall == [pc |-> "idle", outcome |-> "none", topicId |-> NoTopic]

DefaultVarsInit == defaultCalls = [c \in DefaultCallers |-> IdleDefaultCall]

beyondDefault ==
    <<searchVars, singletonVars, watcherVars, trackerVars, commonVars,
      handleVars, agentVars, ingestVars, restVars, waitVars, overlapVars,
      enableVars, pauseVars, normalizeVars, reinitVars, statusVars,
      afterDefault>>

\* ensureDefaultTopic() is called: it awaits ensureInitialized.
ensureDefaultTopicStarts(c) ==
    /\ defaultCalls[c].pc = "idle"
    /\ defaultCalls' = [defaultCalls EXCEPT ![c].pc = "ensureInitialized"]
    /\ UNCHANGED <<folderVars, managerVars, beyondDefault>>

\* The caller goes on: the topic whose name is "Default" is returned, or
\* createTopic is called, and what it throws is thrown on.
ensureDefaultTopicContinues(c) ==
    /\ defaultCalls[c].pc = "ensureInitialized"
    /\ IF DefaultTopics # {}
       THEN /\ defaultCalls' =
                   [defaultCalls EXCEPT ![c] =
                       [pc |-> "done", outcome |-> "ok",
                        topicId |-> Min(DefaultTopics)]]
            /\ UNCHANGED <<folderVars, managerVars>>
       ELSE /\ createTopic(DefaultTopicName, <<>>)
            /\ defaultCalls' =
                   [defaultCalls EXCEPT ![c] =
                       [pc |-> "done", outcome |-> lastCall'.outcome,
                        topicId |-> lastCall'.topicId]]
    /\ UNCHANGED beyondDefault

\* The names the user gives to topics: "default" differs from the name of
\* the default topic by case only.
OtherNames == { [text |-> x, imported |-> 0] : x \in {"default", "Docs"} }

MaxDefaultTopics == 3

DefaultCreateTopic ==
    /\ nextTopicId <= MaxDefaultTopics
    /\ \E name \in OtherNames : createTopic(name, <<>>)
    /\ UNCHANGED beyondManager

DefaultNext ==
    \/ \E c \in DefaultCallers : ensureDefaultTopicStarts(c)
    \/ \E c \in DefaultCallers : ensureDefaultTopicContinues(c)
    \/ DefaultCreateTopic

----------------------------------------------------------------------------
(***************************************************************************)
(* TopicManager: the chunks in the vector store of a topic                 *)
(*                                                                         *)
(* The pipeline writes the chunks of a processed file to the table of the  *)
(* topic; removeDocumentByFilePath deletes from the table by a filter on   *)
(* the documentName column.                                                *)
(***************************************************************************)

ChunkVarsInit == storeChunks = <<>>

beyondChunks ==
    <<searchVars, singletonVars, watcherVars, trackerVars, commonVars,
      handleVars, agentVars, ingestVars, restVars, waitVars, overlapVars,
      enableVars, pauseVars, normalizeVars, reinitVars, statusVars,
      defaultVars, afterChunks>>

ChunkTopicIds == {1}

\* Two files of one name in two folders, and a file of another name.
ChunkPaths == { <<"w", "a.md">>, <<"w", "d", "a.md">>, <<"w", "b.md">> }

ChunkFiles ==
    [filePath : ChunkPaths,
     pipelineResult : { r \in PipelineResults : r.success }]

ChunksOf(t) == IF t \in DOMAIN storeChunks THEN storeChunks[t] ELSE {}

\* The chunks the pipeline stores for a document: each one carries the name
\* of the document, the base name of the file.
StoredFor(document) ==
    { [documentId |-> document.id,
       documentName |-> Basename(document.filePath),
       index |-> i] : i \in 1..document.chunkCount }

\* table.delete("documentName = '<fileName>'")
DeleteByName(chunks, fileName) ==
    { c \in chunks : c.documentName # fileName }

ChunksCreateTopic ==
    /\ nextTopicId \in ChunkTopicIds
    /\ createTopic([text |-> "Docs", imported |-> 0], <<>>)
    /\ UNCHANGED <<storeChunks, beyondChunks>>

\* addDocuments(t, [file]): the pipeline has stored the chunks of the file
\* when the document is registered.
ChunksAdd ==
    \E t \in ChunkTopicIds, file \in ChunkFiles :
        /\ t \in DOMAIN topicsIndex
        /\ addDocuments(t, <<file>>)
        /\ storeChunks' =
               Extend(storeChunks, t,
                      ChunksOf(t) \cup
                          UNION { StoredFor(topicDocuments'[t][d]) :
                                    d \in DOMAIN topicDocuments'[t]
                                            \ (IF t \in DOMAIN topicDocuments
                                               THEN DOMAIN topicDocuments[t]
                                               ELSE {}) })
        /\ UNCHANGED beyondChunks

\* removeDocumentByFilePath(t, p): when a document was found and the store
\* was got, the table deletes by the base name of p, or the delete fails
\* and the failure is caught.
ChunksRemove ==
    \E t \in ChunkTopicIds, p \in ChunkPaths, load \in LoadOutcomes,
       deleted \in BOOLEAN :
        /\ removeDocumentByFilePath(t, p, load)
        /\ storeChunks' =
               IF /\ lastCall'.outcome = "ok"
                  /\ lastCall'.value = TRUE
                  /\ GetVectorStore(t, load).outcome = "handle"
                  /\ deleted
               THEN Extend(storeChunks, t, DeleteByName(ChunksOf(t), Basename(p)))
               ELSE storeChunks
        /\ UNCHANGED beyondChunks

ChunksNext == ChunksCreateTopic \/ ChunksAdd \/ ChunksRemove

----------------------------------------------------------------------------
(***************************************************************************)
(* TopicManager: loadTopicsIndex and the index file                        *)
(*                                                                         *)
(* The index file is absent, holds an index, holds text that JSON.parse    *)
(* rejects, or holds an index that readFile cannot read.  The manager      *)
(* writes it in saveTopicsIndex; the user or a crash changes it from       *)
(* outside.  No documents are added here, so the documents loaded for a    *)
(* topic are none.                                                         *)
(***************************************************************************)

FileOf(kind, topics) == [kind |-> kind, topics |-> topics]

\* init() has run on an empty storage directory.
FileVarsInit == indexFile = FileOf("index", <<>>)

beyondIndexFile ==
    <<searchVars, singletonVars, watcherVars, trackerVars, commonVars,
      handleVars, agentVars, ingestVars, restVars, waitVars, overlapVars,
      enableVars, pauseVars, normalizeVars, reinitVars, statusVars,
      defaultVars, chunkVars>>

MaxIndexTopics == 2

IndexNames ==
    { [text |-> x, imported |-> 0] : x \in {"Docs", "Notes", "Code"} }

\* createTopic saves the index.
IndexCreateTopic ==
    /\ nextTopicId <= MaxIndexTopics
    /\ \E name \in IndexNames : createTopic(name, <<>>)
    /\ indexFile' = IF lastCall'.outcome = "ok"
                    THEN FileOf("index", topicsIndex')
                    ELSE indexFile
    /\ UNCHANGED beyondIndexFile

\* From outside: the file is deleted, cut short, or made unreadable.
FileChanges(kind) ==
    /\ indexFile.kind = "index"
    /\ indexFile' = FileOf(kind, IF kind = "unreadable"
                                 THEN indexFile.topics ELSE <<>>)
    /\ UNCHANGED <<folderVars, managerVars, beyondIndexFile>>

\* An unreadable file is made readable again.
FileReadable ==
    /\ indexFile.kind = "unreadable"
    /\ indexFile' = FileOf("index", indexFile.topics)
    /\ UNCHANGED <<folderVars, managerVars, beyondIndexFile>>

\* loadTopicsIndex, as init() and refresh() call it.  The index read
\* replaces the one in memory and every topic of it gets its documents,
\* the loaders catching their own failures; whatever readFile or
\* JSON.parse throws is caught, an empty index is made and saved.  The
\* write of the empty index succeeds or throws.
loadTopicsIndex(saved) ==
    /\ IF indexFile.kind = "index"
       THEN /\ topicsIndex' = indexFile.topics
            /\ topicDocuments' =
                   [t \in DOMAIN topicDocuments \cup DOMAIN indexFile.topics |->
                       IF t \in DOMAIN indexFile.topics
                       THEN <<>> ELSE topicDocuments[t]]
            /\ lastCall' = Call("loadTopicsIndex", NoTopic, "ok", "loaded")
            /\ UNCHANGED indexFile
       ELSE /\ topicsIndex' = <<>>
            /\ UNCHANGED topicDocuments
            /\ IF saved
               THEN /\ indexFile' = FileOf("index", <<>>)
                    /\ lastCall' = Call("loadTopicsIndex", NoTopic, "ok",
                                        "created")
               ELSE /\ UNCHANGED indexFile
                    /\ lastCall' = Call("loadTopicsIndex", NoTopic, "error",
                                        "created")
    /\ UNCHANGED <<vectorStoreCache, storeMetadata, currentModel,
                   availableModels, archive, nextTopicId, nextDocumentId,
                   folderVars, beyondIndexFile>>

IndexFileNext ==
    \/ IndexCreateTopic
    \/ \E kind \in {"absent", "garbage", "unreadable"} : FileChanges(kind)
    \/ FileReadable
    \/ \E saved \in BOOLEAN : loadTopicsIndex(saved)

----------------------------------------------------------------------------
(* Specifications *)

Init ==
    /\ FolderVarsInit
    /\ ManagerVarsInit
    /\ SearchVarsInit
    /\ SingletonVarsInit
    /\ TrackerVarsInit
    /\ WatcherVarsInit
    /\ CommonVarsInit
    /\ HandleVarsInit
    /\ AgentVarsInit
    /\ IngestVarsInit
    /\ RestVarsInit
    /\ WaitVarsInit
    /\ OverlapVarsInit
    /\ EnableVarsInit
    /\ PauseVarsInit
    /\ NormalizeVarsInit
    /\ ReinitVarsInit
    /\ StatusVarsInit
    /\ DefaultVarsInit
    /\ ChunkVarsInit
    /\ FileVarsInit

SpecFolder == Init /\ [][FolderNext]_vars

SpecRegistry == Init /\ [][RegistryNext]_vars

SpecDocuments == Init /\ [][DocumentsNext]_vars

SpecSearch == Init /\ [][SearchNext]_vars

SpecSingleton == Init /\ [][SingletonNext]_vars

SpecStore == Init /\ [][StoreNext]_vars

SpecDebounce == Init /\ [][DebounceNext]_vars

SpecBatch == Init /\ [][BatchNext]_vars

SpecCommon == Init /\ [][CommonNext]_vars

SpecReadOnly == Init /\ [][ReadOnlyNext]_vars

SpecHandles == Init /\ [][HandlesNext]_vars

SpecFactory == Init /\ [][FactoryNext]_vars

SpecAgents == Init /\ [][AgentsNext]_vars

SpecIngest == Init /\ [][IngestNext]_vars

SpecPausedIngest == Init /\ [][PausedIngestNext]_vars

SpecEnable == Init /\ [][EnableNext]_vars

SpecPause == Init /\ [][PauseNext]_vars

SpecNormalize == Init /\ [][NormalizeNext]_vars

SpecReinit == Init /\ [][ReinitNext]_vars

SpecStatus == Init /\ [][StatusNext]_vars

SpecDefault == Init /\ [][DefaultNext]_vars

SpecChunks == Init /\ [][ChunksNext]_vars

SpecIndexFile == Init /\ [][IndexFileNext]_vars

\* Every await of a batch settles, the timers armed by completeTracking
\* fire, and every pause is followed by resume.
SpecDispose ==
    /\ Init
    /\ [][DisposeNext]_vars
    /\ WF_vars(DisposeFilter)
    /\ WF_vars(BatchEnsure)
    /\ WF_vars(BatchRemove)
    /\ WF_vars(BatchAdd)
    /\ WF_vars(BatchExpire)
    /\ WF_vars(isPaused /\ resume)

SpecRest == Init /\ [][RestNext]_vars

SpecOverlap == Init /\ [][OverlapNext]_vars

\* Every pause() is followed by resume(), and a caller whose promise is
\* resolved goes on.
SpecWait ==
    /\ Init
    /\ [][WaitNext]_vars
    /\ WF_vars(isPaused /\ resumeCalled)
    /\ \A c \in WaitCallers : WF_vars(waiterContinues(c))

----------------------------------------------------------------------------
(* Claims: documents, names, archives, vector-store handles *)

DocumentsOf(t) == IF t \in DOMAIN topicDocuments THEN topicDocuments[t] ELSE <<>>

\* C1: after every completed addDocuments(T, ...) and
\* removeDocumentByFilePath(T, ...) call, returning or throwing, the
\* documentCount of the local topic T equals the number of documents
\* registered to T in the document map.
C1_DocumentCountMatchesMap ==
    (/\ lastCall.op \in {"addDocuments", "removeDocumentByFilePath"}
     /\ lastCall.topicId \in DOMAIN topicsIndex)
        => topicsIndex[lastCall.topicId].documentCount =
               Cardinality(DOMAIN DocumentsOf(lastCall.topicId))

\* C9: in every reachable state no two topics of the local registry have
\* names that are equal ignoring case.
C9_NamesUniqueIgnoringCase ==
    \A t1, t2 \in DOMAIN topicsIndex :
        t1 # t2 => ToLowerCase(topicsIndex[t1].name) # ToLowerCase(topicsIndex[t2].name)

\* The documents of an archive / of a map that have a given chunk count.
ArchivedWithChunks(documents, n) ==
    { i \in 1..Len(documents) : documents[i].chunkCount = n }

MappedWithChunks(documents, n) ==
    { d \in DOMAIN documents : documents[d].chunkCount = n }

AllDocumentIds(docs) == UNION { DOMAIN docs[t] : t \in DOMAIN docs }

\* What C10 says of a step that imports the archive, the new topic being n.
ImportedFaithfully(n) ==
    LET exported == archive[1]
        original == exported.topic.id
        documents == topicDocuments'[n]
    IN  /\ n # original
        /\ n \notin DOMAIN topicsIndex
        /\ Cardinality(DOMAIN documents) = Len(exported.documents)
        /\ \A c \in 0..MaxChunks :
               Cardinality(MappedWithChunks(documents, c)) =
                   Cardinality(ArchivedWithChunks(exported.documents, c))
        /\ topicsIndex'[n].documentCount = Cardinality(DOMAIN documents)
        /\ \A d \in DOMAIN documents :
               /\ documents[d].id = d
               /\ documents[d].topicId = n
               /\ d \notin AllDocumentIds(topicDocuments)
               /\ \A i \in 1..Len(exported.documents) : exported.documents[i].id # d
        /\ \A t \in DOMAIN topicsIndex :
               t \in DOMAIN topicsIndex' /\ topicsIndex'[t] = topicsIndex[t]
        /\ \A t \in DOMAIN topicDocuments :
               t \in DOMAIN topicDocuments' /\ topicDocuments'[t] = topicDocuments[t]

\* C10: importing the archive of an exported local topic yields a topic
\* with a different ID, a document set of the same size and the same
\* per-document chunk counts, a documentCount equal to that size, and
\* documents that each have a new ID and the new topic's ID as topicId; the
\* original topic and its documents are unchanged.
C10_ExportImportRoundTrip ==
    [][ (lastCall'.op = "importTopic" /\ lastCall'.outcome = "ok")
            => ImportedFaithfully(lastCall'.topicId) ]_vars

\* The stored model of t differs from the active model and is not available.
MismatchUnavailable(t) ==
    /\ StoredModel(t) # NoModel
    /\ StoredModel(t) # currentModel
    /\ StoredModel(t) \notin availableModels

\* What C4 says of a getVectorStore(t) step with the given outcome and value.
GetVectorStoreContract(t, outcome, value) ==
    IF MismatchUnavailable(t)
    THEN /\ outcome = "error"
         /\ value.error = MismatchError(StoredModel(t), currentModel)
         /\ value.store = NoStore
         /\ ~value.opened
         /\ vectorStoreCache' = vectorStoreCache
    ELSE IF t \in DOMAIN vectorStoreCache
    THEN /\ outcome = "handle"
         /\ value.store = vectorStoreCache[t]
         /\ ~value.opened
         /\ vectorStoreCache' = vectorStoreCache
    ELSE /\ value.opened
         /\ outcome = "handle" =>
                /\ value.store = StoreHandle(t)
                /\ vectorStoreCache' = Extend(vectorStoreCache, t, value.store)
         /\ outcome # "handle" =>
                /\ value.store = NoStore
                /\ vectorStoreCache' = vectorStoreCache

\* C4: getVectorStore(T) for a topic whose stored model differs from the
\* active model and is not available fails with an error naming both models,
\* returns no handle even when one is cached, opens no store and leaves the
\* cache unchanged; otherwise it returns the cached handle, or opens a store
\* and caches the handle it got.
C4_GetVectorStoreContract ==
    [][ lastCall'.op = "getVectorStore"
            => GetVectorStoreContract(lastCall'.topicId, lastCall'.outcome,
                                      lastCall'.value) ]_vars

\* A mismatch error was returned for a topic whose handle is cached.
C4_Witness ==
    /\ lastCall.op = "getVectorStore"
    /\ lastCall.outcome = "error"
    /\ lastCall.value.error.kind = "ModelMismatch"
    /\ lastCall.topicId \in DOMAIN vectorStoreCache

----------------------------------------------------------------------------
(* Claims: GET /search *)

\* C3: under every interleaving of concurrent /search requests at their
\* awaits, no response carries results of a query that ran while the active
\* model differed from the stored model of the request's topic.
C3_ResultsFromTopicModel ==
    \A r \in SearchRequests :
        (/\ searchRequests[r].pc = "done"
         /\ searchRequests[r].status = 200
         /\ searchRequests[r].storedModel # NoModel)
            => searchRequests[r].queryModel = searchRequests[r].storedModel

----------------------------------------------------------------------------
(* Claims: the singleton and its initialization *)

\* C7: at most one execution of init is in flight at any time; callers of
\* getInstance and of ensureInitialized, also after dispose() has reset the
\* flag, wait on the in-flight initialization instead of starting another.
C7_AtMostOneInitInFlight == Cardinality(InFlight) <= 1

\* A getInstance call of caller c returns in this step.
GetInstanceReturns(c) ==
    /\ callers[c].pc # "returned"
    /\ callers'[c].pc = "returned"
    /\ callers'[c].op = "getInstance"

\* Caller c, which waited on a promise that is not the promise of the
\* initialization now in flight, runs the code after its await.
EarlierCallerContinues(c) ==
    /\ callers[c].pc = "awaitInit"
    /\ callers'[c].pc # "awaitInit"
    /\ initPromise # NoPromise
    /\ initPromise # callers[c].promise

\* C8: getInstance returns only an instance whose initialization has
\* completed successfully; a caller whose awaited initialization failed gets
\* an error; and what an earlier caller does after its await clears neither
\* the instance nor the in-flight promise of a later, fresh initialization.
C8_GetInstanceFailureHandling ==
    [][ \A c \in Callers :
            /\ GetInstanceReturns(c) => isInitialized'[callers'[c].result]
            /\ (/\ callers[c].pc = "awaitInit"
                /\ callers'[c].pc # "awaitInit"
                /\ initExecutions[callers[c].promise].state = "rejected")
                   => callers'[c].pc = "threw"
            /\ EarlierCallerContinues(c) =>
                   /\ instance' = instance
                   /\ initPromise' = initPromise ]_vars

----------------------------------------------------------------------------
(* Claims: the watcher's debounce and pause *)

\* C6: a watcher batch starts only when the debounce delay has elapsed with
\* no accepted create/change/delete event in between: every accepted event
\* adds its path to the pending set and replaces the armed timer by a new
\* one with the full delay, so at most one timer is armed at any time; and
\* when the timer fires the whole pending set is taken as one batch and the
\* pending set becomes empty.
C6_DebouncedBatches ==
    [][/\ Cardinality(DOMAIN timers') <= 1
       /\ (lastStep'.op = "handleFileChange" /\ lastStep'.outcome = "accepted")
              => /\ lastStep'.value \in Range(pendingChanges')
                 /\ Range(pendingChanges) \subseteq Range(pendingChanges')
                 /\ updateTimer' # updateTimer
                 /\ timers' = (updateTimer' :> DebounceTicks)
       /\ (lastStep'.op = "processQueuedChanges" /\ lastStep'.outcome = "batch")
              => /\ sinceLastEvent = DebounceTicks
                 /\ pendingChanges # <<>>
                 /\ batch'.files = pendingChanges
                 /\ pendingChanges' = <<>>
       /\ batch' # batch => lastStep'.op = "processQueuedChanges"]_vars

\* Several events were taken as one batch when the timer fired.
C6_Witness ==
    /\ lastStep.op = "processQueuedChanges"
    /\ lastStep.outcome = "batch"
    /\ Len(batch.files) >= 2
    /\ pendingChanges = <<>>

\* processedFiles of the default topic's progress record; 0 without one.
ProcessedFiles ==
    IF defaultTopicId \in DOMAIN activeOperations
    THEN activeOperations[defaultTopicId].processedFiles
    ELSE 0

NoDuplicates(s) == Cardinality(Range(s)) = Len(s)

----------------------------------------------------------------------------
(* Claims: the common database *)

\* The step is a completed call of one of the operations ops.
Completes(ops) == lastCall'.op \in ops

\* C11: a load that finds a common topic bearing the name of a local topic,
\* ignoring case, leaves no common topic visible (no common index, no common
\* documents, no common path) and the local registry as it was; a load that
\* reads a common index without such a name leaves every topic of that
\* index visible with source common.
C11_LoadAllOrNothing ==
    [][ Completes({"loadCommonDatabase"}) =>
          LET disk == lastCall'.value.disk
              read == /\ lastCall'.value.commonPath # NoPath
                      /\ disk.accessible
                      /\ disk.indexFile = "ok"
              collides ==
                  \E c \in DOMAIN disk.topics, l \in DOMAIN topicsIndex :
                      ToLowerCase(disk.topics[c].name)
                          = ToLowerCase(topicsIndex[l].name)
              visible == { getAllTopics'[i] : i \in 1..Len(getAllTopics') }
          IN  /\ (read /\ collides) =>
                      /\ commonTopicsIndex'.null
                      /\ commonTopicDocuments' = <<>>
                      /\ commonDatabasePath' = NoPath
                      /\ topicsIndex' = topicsIndex
                      /\ \A topic \in visible : topic.source = "local"
              /\ (read /\ ~collides) =>
                      \A c \in DOMAIN disk.topics :
                          [id |-> c, name |-> disk.topics[c].name,
                           source |-> "common"] \in visible
    ]_vars

\* A load has just refused a common index that holds a name of the local
\* registry in another case.
C11_Witness ==
    /\ lastCall.op = "loadCommonDatabase"
    /\ lastCall.outcome = "conflicts"
    /\ \E c \in DOMAIN lastCall.value.disk.topics, l \in DOMAIN topicsIndex :
           /\ lastCall.value.disk.topics[c].name # topicsIndex[l].name
           /\ ToLowerCase(lastCall.value.disk.topics[c].name)
                  = ToLowerCase(topicsIndex[l].name)
    /\ commonTopicsIndex.null

\* The operations that change a topic or copy it out.
MutatingOperations ==
    {"addDocuments", "removeDocumentByFilePath", "updateTopic", "deleteTopic",
     "deleteTopicVectorStore", "exportTopic"}

\* C12: a mutating operation called with the ID of a common topic fails and
\* leaves the common index, the common documents, the local registry and
\* the vector-store cache as they were.
C12_CommonTopicsReadOnly ==
    [][ (Completes(MutatingOperations) /\ isCommonTopic(lastCall'.topicId)) =>
          /\ lastCall'.outcome = "error"
          /\ UNCHANGED <<commonTopicsIndex, commonTopicDocuments, topicsIndex,
                         vectorStoreCache>>
    ]_vars

----------------------------------------------------------------------------
(* Claims: deletion *)

\* The topics that were created and are no longer in the index: the ones
\* deleteTopic has removed.
DeletedTopics == { t \in 1..(nextTopicId - 1) : t \notin DOMAIN topicsIndex }

\* C13: a topic that deleteTopic has removed is absent from the topic index,
\* the document map, the vector-store cache and the folder-usage state, in
\* the state after the deletion and in every later one.
C13_DeletedIsTerminal ==
    \A t \in DeletedTopics :
        /\ t \notin DOMAIN topicDocuments
        /\ t \notin DOMAIN vectorStoreCache
        /\ t \notin DOMAIN folderChunkStats

\* C14: the cache holds no handle that was opened before the latest
\* completed deleteTopicVectorStore of its topic, or before the latest
\* reinitializeWithNewModel, however getVectorStore interleaves with them.
C14_NoStaleHandleCached ==
    \A t \in DOMAIN vectorStoreCache : t \notin staleCached

\* C15: once deleteTopic, deleteTopicVectorStore or
\* reinitializeWithNewModel has completed, the agent cache of the REST
\* server holds no agent of the topic that wraps a store from before the
\* operation, so no later search reuses one.
C15_NoStaleAgentCached ==
    \A t \in DOMAIN agentCache : t \notin staleAgents

----------------------------------------------------------------------------
(* Claims: ingestion and removal of documents *)

\* The indices of the files among the first n that the pipeline ingested,
\* in input order.
RECURSIVE Ingested(_, _)
Ingested(files, n) ==
    IF n = 0 THEN <<>>
    ELSE IF files[n].pipelineResult.success
    THEN Append(Ingested(files, n - 1), n)
    ELSE Ingested(files, n - 1)

\* While files are in the pipeline nothing is written and the results are
\* those of the files ingested so far; a call on a topic that exists ends
\* without an error, with one result for each ingested file in input order
\* and with one write of the index and one of the documents.
AddDocumentsResults ==
    /\ adding.pc = "processDocument" =>
           /\ adding.indexSaves = 0 /\ adding.documentSaves = 0
           /\ adding.results = Ingested(adding.files, adding.i - 1)
    /\ adding.pc = "saveTopicsIndex" =>
           adding.indexSaves = 1 /\ adding.documentSaves = 0
    /\ (adding.pc = "done" /\ adding.outcome = "ok") =>
           /\ adding.results = Ingested(adding.files, Len(adding.files))
           /\ adding.indexSaves = 1 /\ adding.documentSaves = 1

\* A file that fails adds no document and leaves the folder tree alone,
\* and the call goes on; the call throws only for a topic not in the index.
AddDocumentsGoesOn ==
    /\ (adding.pc = "processDocument"
          /\ ~adding.files[adding.i].pipelineResult.success) =>
           /\ UNCHANGED <<topicDocuments, folderChunkStats>>
           /\ adding'.pc \in {"processDocument", "saveTopicsIndex"}
    /\ (adding' # adding /\ adding'.pc = "done" /\ adding'.outcome = "error") =>
           adding'.topicId \notin DOMAIN topicsIndex

\* C16: addDocuments never aborts on the failure of a file: it returns one
\* result for each ingested file in input order, a failing file adds no
\* document and leaves the folder tree unchanged, and the topic index and
\* the documents of the topic are each written once per call, after the
\* loop.
C16_AddDocumentsPerFileFailures ==
    [](AddDocumentsResults) /\ [][AddDocumentsGoesOn]_vars

\* A call of two files, the first of which failed, has returned the result
\* of the second.
C16_Witness ==
    /\ adding.pc = "done"
    /\ adding.outcome = "ok"
    /\ Len(adding.files) = 2
    /\ ~adding.files[1].pipelineResult.success
    /\ adding.results = <<2>>

\* The documents of topic t that bear the path.
DocumentsAt(t, filePath) ==
    IF t \in DOMAIN topicDocuments
    THEN { d \in DOMAIN topicDocuments[t] :
             topicDocuments[t][d].filePath = filePath }
    ELSE {}

\* C17: removeDocumentByFilePath on a topic without a document of that path
\* returns false and changes nothing; with such a document it returns true
\* with the document removed and the count of the topic and the folder
\* tree brought up to date, whatever happens on the side of the vector
\* store.
C17_RemoveIsBestEffort ==
    [][ \A t \in DOMAIN topicsIndex, filePath \in DocPaths, load \in LoadOutcomes :
          removeDocumentByFilePath(t, filePath, load) =>
              /\ lastCall'.outcome = "ok"
              /\ IF DocumentsAt(t, filePath) = {}
                 THEN /\ lastCall'.value = FALSE
                      /\ UNCHANGED <<topicsIndex, topicDocuments,
                                     vectorStoreCache, folderChunkStats>>
                 ELSE /\ lastCall'.value = TRUE
                      /\ DocumentsAt(t, filePath)' \subseteq DocumentsAt(t, filePath)
                      /\ Cardinality(DocumentsAt(t, filePath)')
                             = Cardinality(DocumentsAt(t, filePath)) - 1
                      /\ topicsIndex'[t].documentCount =
                             Cardinality(DOMAIN topicDocuments'[t])
                      /\ StatsOf(t)' =
                             RemoveFolderChunkStats(StatsOf(t), watchFoldersConfig,
                                                    filePath)
    ]_vars


\* Request r has just been taken by handleRequest.
Arrives(r) == httpRequests[r].pc = "idle" /\ httpRequests'[r].pc # "idle"

\* The single response of request r after the step.
AnswerOf(r) == responses'[r][1]

\* The topics whose name is the topic parameter, ignoring case.
Named(topicName) ==
    { t \in DOMAIN topicsIndex :
        ToLowerCase(topicsIndex[t].name) = ToLowerCase(AsName(topicName)) }

ErrorStatuses == {400, 404, 500, 503}

\* What is written to the responses: a request whose handling is over has
\* exactly one response, a request in handling none yet; the error
\* responses are those with a status in {400, 404, 500, 503} and they carry
\* the JSON body {error: string}.
OneResponseEach ==
    \A r \in SearchRequests :
        /\ httpRequests[r].pc = "finished" => Len(responses[r]) = 1
        /\ httpRequests[r].pc # "finished" => responses[r] = <<>>
        /\ \A i \in 1..Len(responses[r]) :
              /\ responses[r][i].status \in {200, 204} \cup ErrorStatuses
              /\ responses[r][i].status \in ErrorStatuses
                    <=> responses[r][i].body = "error"
              /\ responses[r][i].body = "error" => responses[r][i].error # ""

\* The handler of this request throws as it is called: decodeURIComponent
\* on a malformed escape, toLowerCase on an array when there is a topic to
\* test.
Throws(request) ==
    \/ request.method = "GET" /\ request.route = "/topics/%"
    \/ /\ request.method = "GET" /\ request.route = "/search"
       /\ request.q = "test" /\ request.topic = Repeated
       /\ topicManagerSet /\ DOMAIN topicsIndex # {}

\* A handler that throws, as it is called or after an await, is answered 500.
ThrownIs500 ==
    \A r \in SearchRequests :
        /\ (Arrives(r) /\ Throws(httpRequests'[r].request))
           => responses'[r] = <<AnswerOf(r)>> /\ AnswerOf(r).status = 500
        /\ (/\ searchRequests[r].pc \in {"gettingStore", "agentInit", "querying"}
            /\ searchRequests'[r].pc = "done"
            /\ searchRequests'[r].status # 200)
           => responses'[r] = <<AnswerOf(r)>> /\ AnswerOf(r).status = 500

Tracking == batch.pc \notin {"idle", "filtering"}

\* C20: from startTracking(T) of a batch until that batch's completeTracking(T)
\* or cancelTracking(T) a progress record for T exists, and the delayed
\* removal armed by the completion of an earlier batch of T does not remove
\* the record of the batch that is running.
C20_RecordLivesWithItsBatch ==
    /\ [](Tracking => defaultTopicId \in DOMAIN activeOperations)
    /\ [][\A t \in DOMAIN expiryTimers :
             (ProgressExpires(t) /\ t = defaultTopicId) => ~Tracking]_vars


\* The callers suspended in waitIfPaused.
Suspended == { c \in WaitCallers : waiters[c].pc = "suspended" }

\* resume() in a paused tracker releases every suspended caller, whatever its
\* topic, and empties the waiter queues; a suspended caller is released by
\* nothing else; waitIfPaused with the flag not set suspends nobody.
ResumeReleasesAll ==
    /\ (isPaused /\ ~isPaused')
          => /\ \A c \in Suspended : waiters'[c].pc = "released"
             /\ pauseResolvers' = <<>>
    /\ \A c \in Suspended :
          waiters'[c].pc # "suspended" => isPaused /\ ~isPaused'
    /\ \A c \in WaitCallers :
          (waiters[c].pc = "idle" /\ waiters'[c].pc # "idle" /\ ~isPaused)
             => waiters'[c].pc = "returned" /\ pauseResolvers' = pauseResolvers

\* C21: resume() releases every caller suspended in waitIfPaused, for every
\* topic, and leaves the waiter queues empty; no suspended caller is
\* released while the pause flag stays set; waitIfPaused returns without
\* suspending when the flag is not set; and, every pause() being followed by
\* resume(), every suspended caller eventually continues.
C21_ResumeReleasesEveryWaiter ==
    /\ [][ResumeReleasesAll]_vars
    /\ \A c \in WaitCallers :
          (waiters[c].pc = "suspended") ~> (waiters[c].pc = "idle")

\* Callers of two topics have been released together, two of them from the
\* queue of one topic.
C21_Witness ==
    /\ ~isPaused
    /\ pauseResolvers = <<>>
    /\ \A c \in WaitCallers : waiters[c].pc = "released"
    /\ { waiters[c].topicId : c \in WaitCallers } = WaitTopics


\* The tree has a node, file or folder, where the file path resolves to.
InTree(stats, cfg, filePath) ==
    LET r == ResolveRoot(cfg, filePath)
    IN  NodeKey(r.rootKey, r.relativeParts) \in DOMAIN stats.nodes

\* The tree after updateFolderChunkStats and then removeFolderChunkStats of
\* the same path under the same configuration.
UpdatedThenRemoved(stats, cfg, filePath, chunkCount) ==
    RemoveFolderChunkStats(
        UpdateFolderChunkStats(stats, cfg, filePath, chunkCount), cfg, filePath)

\* C22: for a file path with no node in the topic's tree,
\* updateFolderChunkStats(T, path, n) followed by removeFolderChunkStats(T,
\* path), under one watch-folder configuration, gives back the nodes, the
\* chunk counts and totalChunks of before; one file with 10 chunks in an
\* empty tree gives a root with chunkCount 10, and removing it leaves no root.
C22_UpdateThenRemoveRestores ==
    \A t \in FolderTopics, filePath \in FilePaths :
        /\ \A n \in ChunkCounts :
              ~InTree(StatsOf(t), watchFoldersConfig, filePath)
                 => UpdatedThenRemoved(StatsOf(t), watchFoldersConfig, filePath, n)
                       = StatsOf(t)
        /\ LET one == UpdateFolderChunkStats(EmptyStats, watchFoldersConfig,
                                             filePath, 10)
               root == NodeKey(ResolveRoot(watchFoldersConfig, filePath).rootKey,
                               <<>>)
           IN  /\ Roots(one.nodes) = {root}
               /\ one.nodes[root].chunkCount = 10
               /\ one.totalChunks = 10
               /\ Roots(RemoveFolderChunkStats(one, watchFoldersConfig,
                                               filePath).nodes) = {}

\* The tree of a topic holds other files, one below a sub-folder, and a
\* path without a node can be added and removed again.
C22_Witness ==
    \E t \in DOMAIN folderChunkStats, filePath \in FilePaths :
        /\ Cardinality(DOMAIN folderChunkStats[t].nodes) >= 4
        /\ ~InTree(folderChunkStats[t], watchFoldersConfig, filePath)
        /\ UpdateFolderChunkStats(folderChunkStats[t], watchFoldersConfig,
                                  filePath, MaxChunks) # folderChunkStats[t]


\* No folder without children: every node without children is a file, and
\* so no root is without children.
NoEmptyFolder(stats) ==
    \A k \in DOMAIN stats.nodes :
        Children(stats.nodes, k) = {} => stats.nodes[k].isFile /\ k[2] # <<>>

\* C28: after every updateFolderChunkStats and removeFolderChunkStats call
\* the tree contains no node that is not a file and has no children, and no
\* root without children.
C28_NoEmptyFolders ==
    \A t \in DOMAIN folderChunkStats : NoEmptyFolder(folderChunkStats[t])


\* A removal has emptied the tree of a topic: the file, the folders above it
\* and the root are gone.
C28_Witness ==
    \E t \in DOMAIN folderChunkStats :
        /\ folderChunkStats[t].nodes = <<>>
        /\ folderChunkStats[t].totalChunks = 0

\* The configured folders that contain the path.
Containing(cfg, filePath) == { i \in 1..Len(cfg) : IsPrefix(cfg[i], filePath) }

\* The nearest configured watch folder that contains the path, or the
\* parent directory when none does.
NearestRoot(cfg, filePath) ==
    IF Containing(cfg, filePath) = {}
    THEN Dirname(filePath)
    ELSE cfg[CHOOSE i \in Containing(cfg, filePath) :
                 \A j \in Containing(cfg, filePath) : Len(cfg[j]) <= Len(cfg[i])]

\* C29: updateFolderChunkStats records a file under the nearest (deepest)
\* configured watch folder that contains it, whatever the order of the
\* configured folders, and under the file's parent directory when no
\* configured folder contains it; removeFolderChunkStats resolves the same
\* root and so removes the node recorded for the path.
C29_NearestWatchFolder ==
    [][\A t \in FolderTopics, filePath \in FilePaths :
         LET root == NearestRoot(watchFoldersConfig, filePath)
             node == NodeKey(root, SubSeq(filePath, Len(root) + 1, Len(filePath)))
         IN  /\ (\E n \in ChunkCounts : updateFolderChunkStats(t, filePath, n))
                   => /\ node \in DOMAIN folderChunkStats'[t].nodes
                      /\ folderChunkStats'[t].nodes[node].isFile
             /\ (removeFolderChunkStats(t, filePath) /\ t \in DOMAIN folderChunkStats)
                   => node \notin DOMAIN folderChunkStats'[t].nodes
    ]_vars


\* The Documents of topic t recorded for the file path.
DocumentsOfPath(t, filePath) ==
    IF t \in DOMAIN topicDocuments
    THEN { d \in DOMAIN topicDocuments[t] :
             topicDocuments[t][d].filePath = filePath }
    ELSE {}

\* The processQueuedChanges calls in flight.
RunsInFlight == { s \in RunSlots : runs[s].pc # "idle" }

\* C23: at most one ingestion batch for the default topic is in flight at
\* any time: a batch whose timer fires while an earlier batch is still
\* draining does not start until the earlier one has finished.
C23_SingleFlight == Cardinality(RunsInFlight) <= 1

\* C24: when the coordinator has processed its events and all its batches
\* have finished, the default topic holds at most one Document per file path.
C24_OneDocumentPerPath ==
    (RunsInFlight = {} /\ pendingChanges = <<>>) =>
        \A filePath \in OverlapPaths :
            Cardinality(DocumentsOfPath(defaultTopicId, filePath)) <= 1

\* The pipeline run of a file of addDocuments starts in this step.
PipelineRunStarts ==
    /\ adding'.pc = "processDocument"
    /\ adding.pc # "processDocument" \/ adding'.i # adding.i

\* A watcher batch or a seed scan calls addDocuments for a file in this step.
BatchRunStarts ==
    /\ batch'.pc = "adding"
    /\ batch.pc # "adding" \/ batch'.index # batch.index

\* The loops of the watcher batch and of the seed scan wait: they call
\* addDocuments for a file only when indexing is not paused.
BatchLoopsWait == [][BatchRunStarts => ~isPaused']_vars

\* C26: every ingestion call site checks waitIfPaused before each file;
\* no pipeline run of a file of addDocuments, called with several paths,
\* starts while the pause flag is set.
C26_NoPipelineRunWhilePaused == [][PipelineRunStarts => ~isPaused']_vars

\* The file node of a path in the folder tree of topic t, if there is one.
FileNodeOf(t, filePath) ==
    LET r == ResolveRoot(watchFoldersConfig, filePath)
        key == NodeKey(r.rootKey, r.relativeParts)
    IN  IF key \in DOMAIN StatsOf(t).nodes
        THEN << StatsOf(t).nodes[key] >>
        ELSE <<>>

\* fs.access has answered in this step; lastStep' holds the pending paths
\* that exist.
FilterStep == batch.pc = "filtering" /\ batch'.pc # "filtering"

\* The batch goes on with the paths that exist and with no other; the
\* filter changes no document and no tree, and starts no progress record
\* when no path exists.
FilterDrops ==
    FilterStep =>
        /\ lastStep'.op = "filter"
        /\ UNCHANGED <<managerVars, folderVars>>
        /\ IF lastStep'.value = <<>>
           THEN batch' = IdleBatch /\ UNCHANGED activeOperations
           ELSE batch'.pc = "ensure" /\ batch'.files = lastStep'.value

\* After the filter the batch keeps its paths; removeDocumentByFilePath and
\* addDocuments are issued for its paths only, and the documents and the
\* file node of every other path stay as they are.
OnlyFilesOfTheBatch ==
    batch.pc \notin {"idle", "filtering"} =>
        /\ batch'.pc # "idle" => batch'.files = batch.files
        /\ lastStep'.op \in {"removed", "added"}
               => lastStep'.value \in Range(batch.files)
        /\ \A p \in BatchPaths \ Range(batch.files) :
               /\ DocumentsOfPath(defaultTopicId, p)'
                      = DocumentsOfPath(defaultTopicId, p)
               /\ FileNodeOf(defaultTopicId, p)' = FileNodeOf(defaultTopicId, p)

\* C25: a pending path whose file no longer exists when its batch is
\* processed is dropped: no removeDocumentByFilePath and no addDocuments
\* is issued for it, the documents and the folder tree of the topic are
\* unchanged for that path, and when no path of the batch exists no
\* progress record is started.
C25_MissingPathsAreDropped == [][FilterDrops /\ OnlyFilesOfTheBatch]_vars

\* The file of an indexed path is gone when its batch is processed: the
\* batch has ended at the filter, the document is still there and no
\* progress record exists.
C25_Witness ==
    /\ lastStep.op = "filter"
    /\ lastStep.value = <<>>
    /\ batch = IdleBatch
    /\ defaultTopicId \notin DOMAIN activeOperations
    /\ DocumentsOfPath(defaultTopicId, <<"w", "a.md">>) # {}

\* C27: every progress record created by startTracking for a watcher
\* batch or a seed scan is eventually removed, by completion and the grace
\* delay or by cancellation, every pause being resumed, also when dispose()
\* or updateConfiguration() runs while the batch is in flight.
C27_RecordsAreRemoved ==
    \A t \in TopicIds :
        (t \in DOMAIN activeOperations) ~> (t \notin DOMAIN activeOperations)

\* The timer of initialize is armed in this step.
SeedDeferred == seedTimers' > seedTimers

\* seedDefaultTopicFromExistingFiles is called in this step.
SeedScanRuns ==
    /\ lastStep'.op = "seed"
    /\ lastStep'.outcome # "skipped"
    /\ lastStep' # lastStep \/ seedTimers' # seedTimers

\* The seed scan ends in this step.
SeedScanEnds ==
    \/ SeedScanRuns /\ lastStep'.outcome = "no files"
    \/ batch.origin = "seed" /\ batch' = IdleBatch

\* setupWatchers attaches the watchers in this step.
WatchersAttach == ~watchers /\ watchers'

\* The default topic is there when the seed scan is deferred, when it
\* runs and when the watchers are attached.
DefaultTopicFirst ==
    SeedDeferred \/ SeedScanRuns \/ WatchersAttach => defaultTopicId' # NoTopic

\* The seed scan runs from the timer, watching being enabled then.
SeedAfterDelay ==
    SeedScanRuns => seedTimers' = seedTimers - 1 /\ watchOnChangesConfig

\* The watchers are attached by the step that ends a seed scan.
WatchersAfterSeed == WatchersAttach => SeedScanEnds

\* With watching disabled no seed scan is deferred, none runs and no
\* watcher is attached.
NothingWhileDisabled ==
    ~watchOnChangesConfig' => ~SeedDeferred /\ ~SeedScanRuns /\ ~WatchersAttach

\* The order of enabling, whatever the setting is afterwards.
EnableInOrder == [][DefaultTopicFirst /\ SeedAfterDelay /\ WatchersAfterSeed]_vars

\* C30: on enable the default topic is ensured before anything else, the
\* seed scan runs only after the deferred delay and only if watching is
\* still enabled then, and the watchers are attached only after the seed
\* scan has finished; when watching is disabled no seed scan runs and no
\* watcher is attached.
C30_EnableOrder ==
    [][/\ DefaultTopicFirst
       /\ SeedAfterDelay
       /\ WatchersAfterSeed
       /\ NothingWhileDisabled]_vars

\* pause(), resume() or togglePause() is called in this step.
TrackerCalled == trackerCall' # trackerCall \/ isPaused' # isPaused

\* The call changes neither the flag nor the queues nor a waiter, and emits
\* nothing.
NoEffect ==
    /\ UNCHANGED <<isPaused, pauseResolvers, waiters>>
    /\ trackerCall'.emitted = <<>>

Idempotent ==
    TrackerCalled =>
        /\ trackerCall'.op = "pause" /\ isPaused => NoEffect
        /\ trackerCall'.op = "resume" /\ ~isPaused => NoEffect
        /\ trackerCall'.op = "togglePause" => isPaused' = ~isPaused

\* C35: pause() while already paused and resume() while not paused change
\* neither the flag nor the waiter queues and emit no event, and
\* togglePause() always flips the flag.
C35_PauseResumeIdempotent == [][Idempotent]_vars

\* pause() was called while indexing was paused and callers were queued.
C35_Witness ==
    /\ trackerCall = [op |-> "pause", emitted |-> <<>>]
    /\ isPaused
    /\ pauseResolvers # <<>>

\* The folder is a workspace root or a directory below one.
InsideWorkspace(workspaceFolders, folder) ==
    \E i \in 1..Len(workspaceFolders) :
        IsPrefix(SegmentsOf(workspaceFolders[i]), Walk(SegmentsOf(folder), <<>>))

\* The entries of the two settings that are not empty, trimmed.
EntriesOf(call) ==
    { Trim(f) : f \in Range(call.configuredFolders) \cup {call.legacyFolder} }
        \ {<<>>}

\* Every folder kept is inside the workspace.
KeptInside ==
    \A f \in Range(normalizeCall.result) :
        InsideWorkspace(normalizeCall.workspaceFolders, f)

\* A relative entry is kept as its path below the first workspace root, an
\* absolute one as it is; no entry is kept as "", and none twice.
KeptResolved ==
    LET call == normalizeCall
        first == call.workspaceFolders[1]
    IN  /\ <<>> \notin Range(call.result)
        /\ \A i, j \in 1..Len(call.result) :
               call.result[i] = call.result[j] => i = j
        /\ \A f \in Range(call.result) :
               \E e \in EntriesOf(call) :
                   f = IF IsAbsolute(e) THEN e ELSE PathResolve(first, e)

\* C31: every folder kept by normalizeWatchFolders is a workspace root or a
\* directory below one, compared by path segments; relative entries are
\* resolved against the first workspace root, empty entries are dropped and
\* the result has no duplicates.
C31_KeptFoldersInsideWorkspace == KeptInside /\ KeptResolved

\* reinitializeWithNewModel has run in this step.
ReinitStep ==
    /\ lastCall'.op = "reinitializeWithNewModel"
    /\ <<lastCall, cleanupCalls, indexModelName, vectorStoreCache>>'
           # <<lastCall, cleanupCalls, indexModelName, vectorStoreCache>>

\* The IDs of the topics that getAllTopics shows.
VisibleTopics == { getAllTopics[i].id : i \in 1..Len(getAllTopics) }

\* The callback was called once for every visible topic and for nothing else.
NotifiedEachOnce ==
    /\ \A t \in VisibleTopics :
           Cardinality({ i \in 1..Len(cleanupCalls') :
                           cleanupCalls'[i].topicId = t }) = 1
    /\ \A i \in 1..Len(cleanupCalls') : cleanupCalls'[i].topicId \in VisibleTopics

ReinitClears ==
    ReinitStep =>
        /\ Registered => NotifiedEachOnce
        /\ vectorStoreCache' = <<>>
        /\ indexModelName' = currentModel'
        /\ lastCall'.outcome = "ok"

\* What holds of the local topics alone.
LocalNotifiedEachOnce ==
    ReinitStep /\ Registered =>
        \A t \in DOMAIN topicsIndex :
            Cardinality({ i \in 1..Len(cleanupCalls') :
                            cleanupCalls'[i].topicId = t }) = 1

ReinitClearsLocal ==
    [][LocalNotifiedEachOnce
       /\ (ReinitStep => /\ vectorStoreCache' = <<>>
                         /\ indexModelName' = currentModel'
                         /\ lastCall'.outcome = "ok")]_vars

\* C32: reinitializeWithNewModel() invokes the registered cleanup callback
\* once for every visible topic, local and common, leaves the vector-store
\* cache empty and persists the name of the active model as the modelName
\* of the index; a callback that throws does not fail the operation.
C32_ReinitializeNotifiesEveryTopic == [][ReinitClears]_vars

\* GET /status is answered in this step.
StatusAnswered == statusResponse' # statusResponse

\* The topics whose progress record the response lists.
Listed(response) ==
    { response.activeOperations[i].topicId :
        i \in 1..Len(response.activeOperations) }

StatusReportsTracker ==
    StatusAnswered =>
        LET response == statusResponse'
        IN  /\ response.status = "paused" <=> isPaused
            /\ response.status = "indexing"
                   <=> ~isPaused /\ DOMAIN activeOperations # {}
            /\ response.status = "idle"
                   <=> ~isPaused /\ DOMAIN activeOperations = {}
            /\ Listed(response) = DOMAIN activeOperations
            /\ Len(response.activeOperations) = Cardinality(DOMAIN activeOperations)
            /\ \A i \in 1..Len(response.activeOperations) :
                   response.activeOperations[i].progress
                       = activeOperations[response.activeOperations[i].topicId]

\* C33: GET /status reports "paused" exactly when the pause flag is set,
\* "indexing" exactly when the flag is not set and a progress record is
\* live, and "idle" otherwise; activeOperations lists exactly the live
\* progress records.
C33_StatusReportsTracker == [][StatusReportsTracker]_vars

\* The request was answered "paused" while a record was live.
C33_Witness ==
    /\ statusResponse.status = "paused"
    /\ statusResponse.activeOperations # <<>>

\* The calls of ensureDefaultTopic that have ended.
Ended == { c \in DefaultCallers : defaultCalls[c].pc = "done" }

\* The calls that have ended returned one and the same topic, and at most
\* one topic bears the name of the default topic.
OneDefaultTopic ==
    /\ \A c, d \in { e \in Ended : defaultCalls[e].outcome = "ok" } :
           defaultCalls[c].topicId = defaultCalls[d].topicId
    /\ \A c \in Ended :
           defaultCalls[c].outcome = "ok" =>
               /\ defaultCalls[c].topicId \in DOMAIN topicsIndex
               /\ topicsIndex[defaultCalls[c].topicId].name = DefaultTopicName
    /\ Cardinality(DefaultTopics) <= 1

\* C34: in every registry state, sequential or concurrent calls of
\* ensureDefaultTopic() all return the same topic named "Default" and
\* create it at most once; the call does not fail because of the topics in
\* the registry.
C34_EnsureDefaultTopic ==
    /\ OneDefaultTopic
    /\ \A c \in Ended : defaultCalls[c].outcome = "ok"

\* The paths of the file nodes of the tree of topic t.
FileNodePaths(t) ==
    { k[1] \o k[2] : k \in { n \in DOMAIN StatsOf(t).nodes :
                               StatsOf(t).nodes[n].isFile } }

TreeCountsDocuments(t) ==
    StatsOf(t).totalChunks =
        SumOver(DOMAIN DocumentsOf(t),
                [d \in DOMAIN DocumentsOf(t) |-> DocumentsOf(t)[d].chunkCount])

TreeListsDocuments(t) ==
    FileNodePaths(t) =
        { DocumentsOf(t)[d].filePath : d \in DOMAIN DocumentsOf(t) }

\* C36: between the calls of addDocuments and removeDocumentByFilePath,
\* for every local topic the tree's totalChunks is the sum of the chunk
\* counts of the topic's documents and the tree has a file node for the
\* paths of those documents and for no other.
C36_TreeMatchesDocuments ==
    \A t \in DOMAIN topicsIndex :
        TreeCountsDocuments(t) /\ TreeListsDocuments(t)

\* A step of removeDocumentByFilePath on topic t.
RemoveStep(t) ==
    /\ lastCall'.op = "removeDocumentByFilePath"
    /\ lastCall'.topicId = t
    /\ t \in DOMAIN storeChunks

\* The chunks of the documents that stay registered stay in the table.
OthersRemain(t) ==
    \A c \in storeChunks[t] :
        c.documentId \in DOMAIN DocumentsOf(t)' => c \in storeChunks'[t]

\* C37: removeDocumentByFilePath(T, path) deletes from the table of T only
\* chunks of the document it removes; the chunks of every other document
\* of T remain, a document of the same file name in another folder
\* included.
C37_OnlyTheRemovedDocumentsChunks ==
    [][\A t \in ChunkTopicIds : RemoveStep(t) => OthersRemain(t)]_vars

\* Where the other documents have other file names, their chunks remain.
OthersOfOtherNamesRemain ==
    [][\A t \in ChunkTopicIds :
          RemoveStep(t) =>
              \A c \in storeChunks[t] :
                  (/\ c.documentId \in DOMAIN DocumentsOf(t)'
                   /\ \A d \in DOMAIN DocumentsOf(t) \ DOMAIN DocumentsOf(t)' :
                          c.documentName # Basename(DocumentsOf(t)[d].filePath))
                      => c \in storeChunks'[t]]_vars

\* this.vectorStoreFactory holds a factory whose dispose() has been called:
\* from the start of reinitializeWithNewModel until the new factory is
\* assigned, which a failed call never does.
FactoryDisposed == reinitializing # "idle"

\* A step in which getVectorStore calls loadStore of the factory.
LoadStoreCalled ==
    \E g \in StoreCallers :
        storeCalls[g].pc = "checking" /\ storeCalls'[g].pc = "loading"

\* A step in which deleteTopicVectorStore calls deleteStore of the factory.
DeleteStoreCalled == \E t \in TopicIds : t \notin deletions /\ t \in deletions'

\* C38: no store is opened or deleted through a factory that has been
\* disposed of: neither while reinitializeWithNewModel is suspended
\* between the disposal of the old factory and the assignment of the new
\* one, nor after a reinitialization that failed.
C38_NoUseOfDisposedFactory ==
    [][(LoadStoreCalled \/ DeleteStoreCalled) => ~FactoryDisposed]_vars

\* A step of loadTopicsIndex.
LoadStep == lastCall'.op = "loadTopicsIndex" /\ lastCall' # lastCall

\* The step has made a new empty index.
MadeEmptyIndex == LoadStep /\ lastCall'.value = "created"

\* The step leaves the file and the registered topics as they are read.
KeptByLoad ==
    /\ indexFile' = indexFile
    /\ indexFile.kind = "index" => topicsIndex' = indexFile.topics
    /\ indexFile.kind # "index" => topicsIndex' = topicsIndex

\* An absent file is replaced by a new empty index, in memory and, when
\* the write succeeds, on disk; a file that is read is loaded as it is.
LoadsWhatIsRead ==
    [][LoadStep =>
          /\ indexFile.kind = "absent" =>
                 /\ topicsIndex' = <<>>
                 /\ lastCall'.outcome = "ok" => indexFile' = FileOf("index", <<>>)
          /\ indexFile.kind = "index" => KeptByLoad /\ ~MadeEmptyIndex]_vars

\* C39: initialization and refresh() make and persist a new empty index
\* only when no index file exists; when the file exists and cannot be read
\* or parsed, the file and the registered topics are not replaced by an
\* empty index.
C39_EmptyIndexOnlyWithoutFile ==
    [][LoadStep =>
          /\ MadeEmptyIndex => indexFile.kind = "absent"
          /\ indexFile.kind \in {"garbage", "unreadable"} => KeptByLoad]_vars


=============================================================================
